---------------------------- MODULE Spec2Model ----------------------------
(***************************************************************************)
(* Model of eth-indexer: the block scheduler (range mode index_blocks and  *)
(* live mode run_live), the store gateway's upserts (addresses, blocks,    *)
(* logs, transactions, receipts, contracts, tokens, token transfers), the *)
(* contract sub-workflow with the explorer client, the ABI classifier, a   *)
(* block task (index_block, index_transaction, index_address), the         *)
(* constructor-log pass of insert_smart_contract and the schema bootstrap  *)
(* (init_db).                                                              *)
(*                                                                         *)
(* Each part is a specification of its own over the shared variables; a    *)
(* specification leaves the variables of the other parts at their initial  *)
(* values.                                                                 *)
(***************************************************************************)
EXTENDS Integers, Sequences, FiniteSets, TLC

(***************************************************************************)
(* Bounds of the model.                                                    *)
(***************************************************************************)
\* highest block number a range run may end at
MaxBlock == 4
\* highest MAX_CONCURRENCY explored
MaxConc == 3
\* number of block headers the live subscription delivers
MaxHeaders == 3
\* number of store calls explored in one behaviour of a store specification
MaxCalls == 3
\* highest block number a store call carries
MaxBn == 3
\* number of contract sub-workflows explored in one behaviour
MaxContractCalls == 2
\* highest number of entries of an ABI handed to the classifier
MaxAbiLen == 4
\* number of failing calls (node or store) explored in one block task
MaxFaults == 1
\* highest number of RPC sessions and of DB pools
MaxPools == 3
\* highest build version (env VERSION) of a schema bootstrap
MaxVersion == 2
\* number of schema bootstraps (starts of the indexer) in one behaviour
MaxRuns == 2

VARIABLES
    \* ---- scheduler (src/src/indexer/mod.rs) ----
    mode,             \* "range" (index_blocks) or "live" (run_live)
    start_block,      \* index_blocks argument
    end_block,        \* index_blocks argument
    max_concurrency,  \* env MAX_CONCURRENCY
    pc,               \* position of the scheduler
    batch_start,      \* local of index_blocks
    batch_end,        \* local of index_blocks
    block_number,     \* loop variable of the for loops
    permits,          \* permits available in the semaphore
    permit,           \* TRUE while the scheduler holds an acquired permit
    tasks,            \* the vec of join handles: <<[block, permit, state]>>
    spawned,          \* history: every tokio::spawn, <<[block, phase]>>
    headers,          \* live mode: headers received from the subscription
    entry,            \* "run", "run_last_blocks" or "run_live"
    failed,           \* history: the block tasks that ended with an error
                      \* or a panic, {[block, state]}
    ws_client_count,  \* ws_clients.len(): the RPC sessions of the indexer
    db_pool_count,    \* db_pools.len(): the DB pools of the indexer
    stats,            \* index_blocks' progress counters: total_blocks,
                      \* blocks_processed, blocks_processed_total, and the
                      \* history of the batches and reports
    boot,             \* schema bootstrap (init_db): its position, the
                      \* tables of the database and the stored version
    \* ---- store gateway (src/src/db) ----
    ncalls,           \* store calls made so far; also the value of NOW()
    last,             \* the last store call: its arguments and its result
    addresses,        \* table addresses: a set of rows
    addr_max,         \* history: per address, the applied calls that carried
                      \* the highest block number supplied so far
    blocks,           \* table blocks: a set of rows
    transactions,     \* table transactions: a set of rows
    transactions_receipts, \* table transactions_receipts: a set of rows
    contracts,        \* table contracts: a set of rows
    tokens,           \* table tokens: a set of rows
    logs,             \* table logs: a set of rows
    token_transfers,  \* table token_transfers: a set of rows
    applied,          \* history: the store calls that executed their
                      \* statement, in order: <<[op, arg, at]>>
    task              \* a block task (index_block): its position, its
                      \* locals and the history of its steps

\* the sessions and pools, fixed once the indexer is built, and the schema
\* bootstrap, which ends before any block is scheduled
envVars == <<ws_client_count, db_pool_count, boot>>

schedVars == <<mode, start_block, end_block, max_concurrency, pc, batch_start,
               batch_end, block_number, permits, permit, tasks, spawned,
               headers, entry, failed, stats, envVars>>

storeVars == <<ncalls, last, addresses, addr_max, blocks, transactions,
               transactions_receipts, contracts, tokens, logs,
               token_transfers, applied, task>>

vars == <<schedVars, storeVars>>

\* the progress counters before index_blocks runs
NoStats ==
    [total_blocks |-> 0, blocks_processed |-> 0, blocks_processed_total |-> 0,
     remaining_blocks |-> 0, batches |-> 0, reported |-> FALSE,
     underflow |-> FALSE]

\* no schema bootstrap is running
NoBoot ==
    [pc |-> "idle", tables |-> {}, stored_version |-> 0, VERSION |-> 0,
     next |-> 1, failures |-> {}, returned |-> 0, result |-> "none"]

\* the scheduler variables of a specification that runs no scheduler
SchedIdle ==
    /\ mode = "none"
    /\ start_block = 0
    /\ end_block = 0
    /\ max_concurrency = 1
    /\ pc = "done"
    /\ batch_start = 0
    /\ batch_end = 0
    /\ block_number = 0
    /\ permits = 0
    /\ permit = FALSE
    /\ tasks = <<>>
    /\ spawned = <<>>
    /\ headers = 0
    /\ entry = "none"
    /\ failed = {}
    /\ ws_client_count = 1
    /\ db_pool_count = 1
    /\ stats = NoStats
    /\ boot = NoBoot

(***************************************************************************)
(* Values the store gateway converts.                                      *)
(***************************************************************************)
NoCall == [op |-> "none"]

\* no block task is running
NoTask ==
    [pc |-> "idle", block_number |-> 0, block |-> [some |-> FALSE],
     hashes |-> <<>>, transaction_hash |-> <<>>,
     transaction |-> [some |-> FALSE],
     receipt |-> [some |-> FALSE], logs |-> <<>>, tx_result |-> "none",
     failing |-> "none", faults |-> 0, trace |-> <<>>, result |-> "none"]

\* the store variables before any call
StoreIdle ==
    /\ ncalls = 0
    /\ last = NoCall
    /\ addresses = {}
    /\ addr_max = {}
    /\ blocks = {}
    /\ transactions = {}
    /\ transactions_receipts = {}
    /\ contracts = {}
    /\ tokens = {}
    /\ logs = {}
    /\ token_transfers = {}
    /\ applied = <<>>
    /\ task = NoTask

\* a U256 is kept by its bit fields: lo is bits 0..31, hi is bits 32..62,
\* bit63 is bit 63, x64 is bits 64..127 and x128 is bits 128..255; the value
\* is lo + hi * 2^32 + bit63 * 2^63 + x64 * 2^64 + x128 * 2^128
WideU256(lo, hi, bit63, x64, x128) ==
    [lo |-> lo, hi |-> hi, bit63 |-> bit63, x64 |-> x64, x128 |-> x128]

\* a U256 below 2^63
U256(lo, hi) == WideU256(lo, hi, FALSE, 0, 0)

\* U256::as_u128: panics ("Integer overflow when casting to u128") when a
\* word above the low 128 bits is not zero
AsU128Panics(u) == u.x128 # 0

\* U256::low_u32
low_u32(u) == u.lo

\* a Decimal of scale 0: the integer lo + mid * 2^32 + hi * 2^64, less 2^63
\* when offset is "-2^63" (the negative values an i64 holds)
\* Decimal::from_parts(lo, mid, hi, negative = false, scale = 0)
DecimalFromParts(lo, mid, hi) ==
    [lo |-> lo, mid |-> mid, hi |-> hi, offset |-> "0"]

\* `x.as_u64() as i32`: the low 32 bits (the explored limbs stay below 2^31,
\* so the sign bit is clear)
AsI32(u) == u.lo

\* format!("0x{:x}", v)
Hex0x(v) == <<"0x", v>>

\* format!("{:x}", bytes): two hex digits per byte
HexBytes(bytes) ==
    [i \in 1..(2 * Len(bytes)) |->
        IF i % 2 = 1 THEN bytes[(i + 1) \div 2] \div 16
                     ELSE bytes[i \div 2] % 16]

\* Option<T>
None == [some |-> FALSE]
Some(v) == [some |-> TRUE, value |-> v]

\* Decimal::from(x.as_u128() as i64), for x that as_u128 accepts: `as i64`
\* keeps bits 0..63 and reads them as two's complement, so bits 64..127 are
\* dropped and a set bit 63 makes the value negative
DecimalFromI64(u) ==
    [DecimalFromParts(u.lo, u.hi, 0)
        EXCEPT !.offset = IF u.bit63 THEN "-2^63" ELSE "0"]

\* the history after a call that executed its statement
Applied(op, arg) == Append(applied, [op |-> op, arg |-> arg, at |-> ncalls])

\* the record of a call: the rows of its key before it, whether the store
\* executed the statement, and what the call returned
Called(op, arg, before, db_ok) ==
    [op |-> op, call |-> arg, before |-> before, db_ok |-> db_ok,
     result |-> IF db_ok THEN "Ok" ELSE "Err"]

(***************************************************************************)
(* db::insert_address                                                      *)
(***************************************************************************)
Addresses == {"a1", "a2"}

\* the account samples index_address hands over: balance, transaction count
\* (passed as nonce and as transaction_count), code and storage slot 0
AccountSamples ==
    { [balance |-> U256(5, 0),  count |-> U256(1, 0), code |-> <<>>,
       storage |-> 0],
      [balance |-> U256(99, 0), count |-> U256(2, 0), code |-> <<96, 128>>,
       storage |-> 7],
      [balance |-> U256(5, 1),  count |-> U256(1, 0), code |-> <<>>,
       storage |-> 0],
      [balance |-> U256(99, 0), count |-> U256(2, 0), code |-> <<>>,
       storage |-> 7] }

\* `excluded."blockNumber" > addresses."blockNumber"`, the condition of every
\* CASE and of the WHERE clause
FresherOrEqual(excluded, stored) == excluded.blockNumber >= stored.blockNumber
Fresher(excluded, stored) == excluded.blockNumber > stored.blockNumber

\* ON CONFLICT ("address") DO UPDATE SET ... WHERE ...: the row that stands
\* after the statement where `stored` stood
AddressOnConflict(stored, excluded) ==
    IF Fresher(excluded, stored)
       THEN [stored EXCEPT
               !.balance = IF Fresher(excluded, stored)
                              THEN excluded.balance ELSE stored.balance,
               !.nonce = IF Fresher(excluded, stored)
                            THEN excluded.nonce ELSE stored.nonce,
               !.transactionCount = IF Fresher(excluded, stored)
                                       THEN excluded.transactionCount
                                       ELSE stored.transactionCount,
               !.blockNumber = IF Fresher(excluded, stored)
                                  THEN excluded.blockNumber
                                  ELSE stored.blockNumber,
               !.contractCode = IF Fresher(excluded, stored)
                                   THEN excluded.contractCode
                                   ELSE stored.contractCode,
               !.storage = IF Fresher(excluded, stored)
                              THEN excluded.storage ELSE stored.storage]
       ELSE stored

\* the row insert_address builds from its arguments
AddressRow(address, balance, nonce, transaction_count, storage, code, bn) ==
    [address |-> Hex0x(address),
     balance |-> DecimalFromParts(low_u32(balance), 0, 0),
     nonce |-> AsI32(nonce),
     transactionCount |-> AsI32(transaction_count),
     blockNumber |-> bn,
     contractCode |-> HexBytes(code),
     storage |-> Hex0x(storage),
     insertedAt |-> ncalls]

\* the rows of addresses with this key
AddressRows(key) == {r \in addresses : r.address = key}

\* history: the applied calls that carry the highest block number supplied
\* so far for their address, after `call` is applied
CarriersOfMax(call) ==
    LET old == {c \in addr_max : c.address = call.address}
    IN  IF \A c \in old : call.block_number > c.block_number
           THEN (addr_max \ old) \cup {call}
           ELSE IF \E c \in old : call.block_number = c.block_number
                   THEN addr_max \cup {call}
                   ELSE addr_max

\* insert_address as index_address calls it; db_ok = FALSE is a failure of
\* the pool or of the statement, which returns Err and changes nothing
insert_address ==
    /\ ncalls < MaxCalls
    /\ \E a \in Addresses, s \in AccountSamples, bn \in 1..MaxBn,
          db_ok \in BOOLEAN :
          LET row == AddressRow(a, s.balance, s.count, s.count, s.storage,
                                s.code, bn)
              old == AddressRows(row.address)
              call == [address |-> a, balance |-> s.balance,
                       nonce |-> s.count, transaction_count |-> s.count,
                       storage |-> s.storage, code |-> s.code,
                       block_number |-> bn]
          IN  /\ addresses' =
                    IF ~db_ok THEN addresses
                    ELSE IF old = {} THEN addresses \cup {row}
                    ELSE (addresses \ old)
                            \cup {AddressOnConflict(o, row) : o \in old}
              /\ addr_max' = IF db_ok THEN CarriersOfMax(call) ELSE addr_max
              /\ last' = Called("insert_address", call, old, db_ok)
    /\ ncalls' = ncalls + 1
    /\ UNCHANGED <<schedVars, task>>
    /\ UNCHANGED <<blocks, transactions, transactions_receipts, contracts,
                   tokens, logs, token_transfers, applied>>

AddressInit ==
    /\ StoreIdle
    /\ SchedIdle

AddressNext ==
    \/ insert_address

SpecAddress == AddressInit /\ [][AddressNext]_vars

(***************************************************************************)
(* db::insert_block                                                        *)
(***************************************************************************)
\* the blocks the node returns: number, hash, transaction hashes, gas used
BlockSamples ==
    { [hash |-> "h1", transactions |-> <<>>, gas_used |-> U256(0, 0)],
      [hash |-> "h2", transactions |-> <<"t1", "t2">>,
       gas_used |-> U256(5, 0)],
      [hash |-> "h1", transactions |-> <<"t1">>, gas_used |-> U256(5, 1)] }

\* the row insert_block builds from the block, at time `now`
BlockRow(block, now) ==
    [number |-> block.number,
     hash |-> Hex0x(block.hash),
     gasUsed |-> DecimalFromI64(block.gas_used),
     transactionsCount |-> Len(block.transactions),
     transactions_ids |-> [i \in 1..Len(block.transactions) |->
                              Hex0x(block.transactions[i])],
     insertedAt |-> now]

\* ON CONFLICT ("number") DO NOTHING: the row that stands after the
\* statement where `stored` stood
BlockOnConflictOverwrite(stored, excluded) == excluded
BlockOnConflict(stored, excluded) == stored

insert_block ==
    /\ ncalls < MaxCalls
    /\ \E n \in 1..MaxBn, s \in BlockSamples, db_ok \in BOOLEAN :
          LET block == [number |-> n] @@ s
              row == BlockRow(block, ncalls)
              old == {r \in blocks : r.number = row.number}
          IN  /\ blocks' =
                    IF ~db_ok THEN blocks
                    ELSE IF old = {} THEN blocks \cup {row}
                    ELSE (blocks \ old)
                            \cup {BlockOnConflict(o, row) : o \in old}
              /\ applied' = IF db_ok THEN Applied("insert_block", block)
                                     ELSE applied
              /\ last' = Called("insert_block", block, old, db_ok)
    /\ ncalls' = ncalls + 1
    /\ UNCHANGED <<schedVars, task>>
    /\ UNCHANGED <<addresses, addr_max, transactions, transactions_receipts,
                   contracts, tokens, logs, token_transfers>>

BlockInit ==
    /\ StoreIdle
    /\ SchedIdle

BlockNext ==
    \/ insert_block

SpecBlock == BlockInit /\ [][BlockNext]_vars

(***************************************************************************)
(* db::insert_transaction and db::insert_transaction_receipt               *)
(***************************************************************************)
TxHashes == {"t1", "t2"}

\* the transactions the node returns for a hash
TransactionSamples ==
    { [from |-> "a1", to |-> Some("a2"), value |-> U256(5, 0),
       block_number |-> 1],
      [from |-> "a2", to |-> None, value |-> U256(5, 1),
       block_number |-> 2],
      [from |-> "a1", to |-> Some("a1"), value |-> U256(99, 0),
       block_number |-> 2] }

\* `transaction.to.unwrap_or_default()`: the zero address when absent
UnwrapOrZero(opt) == IF opt.some THEN opt.value ELSE "0"

\* the row insert_transaction builds
TransactionRow(tx) ==
    [hash |-> Hex0x(tx.hash),
     from |-> Hex0x(tx.from),
     to |-> Hex0x(UnwrapOrZero(tx.to)),
     value |-> DecimalFromI64(tx.value),
     blockNumber |-> tx.block_number]

\* ON CONFLICT ("hash") DO NOTHING
TransactionOnConflictOverwrite(stored, excluded) == excluded
TransactionOnConflict(stored, excluded) == stored

insert_transaction ==
    /\ ncalls < MaxCalls
    /\ \E h \in TxHashes, s \in TransactionSamples, db_ok \in BOOLEAN :
          LET tx == [hash |-> h] @@ s
              row == TransactionRow(tx)
              old == {r \in transactions : r.hash = row.hash}
          IN  /\ transactions' =
                    IF ~db_ok THEN transactions
                    ELSE IF old = {} THEN transactions \cup {row}
                    ELSE (transactions \ old)
                            \cup {TransactionOnConflict(o, row) : o \in old}
              /\ applied' = IF db_ok THEN Applied("insert_transaction", tx)
                                     ELSE applied
              /\ last' = Called("insert_transaction", tx, old, db_ok)
    /\ ncalls' = ncalls + 1
    /\ UNCHANGED <<schedVars, task>>
    /\ UNCHANGED <<addresses, addr_max, blocks, transactions_receipts,
                   contracts, tokens, logs, token_transfers>>

\* the receipts the node returns for a hash
ReceiptSamples ==
    { [from |-> "a1", to |-> Some("a2"), contract_address |-> None,
       status |-> Some(1), block_number |-> 1],
      [from |-> "a2", to |-> None, contract_address |-> Some("a1"),
       status |-> Some(1), block_number |-> 2],
      [from |-> "a1", to |-> Some("a1"), contract_address |-> None,
       status |-> None, block_number |-> 2] }

\* the row insert_transaction_receipt builds; status is
\* `status.unwrap_or_default().as_u32() == 1`
ReceiptRow(receipt) ==
    [transactionHash |-> Hex0x(receipt.transaction_hash),
     from |-> Hex0x(receipt.from),
     to |-> Hex0x(UnwrapOrZero(receipt.to)),
     contractAddress |-> Hex0x(UnwrapOrZero(receipt.contract_address)),
     status |-> (IF receipt.status.some THEN receipt.status.value ELSE 0) = 1,
     blockNumber |-> receipt.block_number]

\* ON CONFLICT ("transactionHash") DO NOTHING
ReceiptOnConflictOverwrite(stored, excluded) == excluded
ReceiptOnConflict(stored, excluded) == stored

insert_transaction_receipt ==
    /\ ncalls < MaxCalls
    /\ \E h \in TxHashes, s \in ReceiptSamples, db_ok \in BOOLEAN :
          LET receipt == [transaction_hash |-> h] @@ s
              row == ReceiptRow(receipt)
              old == {r \in transactions_receipts :
                          r.transactionHash = row.transactionHash}
          IN  /\ transactions_receipts' =
                    IF ~db_ok THEN transactions_receipts
                    ELSE IF old = {} THEN transactions_receipts \cup {row}
                    ELSE (transactions_receipts \ old)
                            \cup {ReceiptOnConflict(o, row) : o \in old}
              /\ applied' = IF db_ok
                               THEN Applied("insert_transaction_receipt",
                                            receipt)
                               ELSE applied
              /\ last' = Called("insert_transaction_receipt", receipt, old,
                                db_ok)
    /\ ncalls' = ncalls + 1
    /\ UNCHANGED <<schedVars, task>>
    /\ UNCHANGED <<addresses, addr_max, blocks, transactions, contracts,
                   tokens, logs, token_transfers>>

TxInit ==
    /\ StoreIdle
    /\ SchedIdle

TxNext ==
    \/ insert_transaction
    \/ insert_transaction_receipt

SpecTx == TxInit /\ [][TxNext]_vars

(***************************************************************************)
(* serde_json values and texts.                                            *)
(***************************************************************************)
JNull == [kind |-> "null"]
JBool(b) == [kind |-> "bool", bool |-> b]
JString(text) == [kind |-> "string", text |-> text]
JArray(items) == [kind |-> "array", items |-> items]
JObject(fields) == [kind |-> "object", fields |-> fields]

\* a String: either empty or the JSON text of a value
EmptyText == [empty |-> TRUE]
\* Value::to_string(): the JSON text of v, never empty
ToText(v) == [empty |-> FALSE, json |-> v]
\* a non-empty text that is no JSON
Raw(str) == [empty |-> FALSE, json |-> [kind |-> "invalid", raw |-> str]]
Garbage == Raw("<html>")
\* String::is_empty
IsEmpty(t) == t.empty

\* serde_json::from_str: Err on the empty text and on a text that is no JSON
from_str(t) ==
    IF t.empty \/ t.json.kind = "invalid"
       THEN [ok |-> FALSE]
       ELSE [ok |-> TRUE, value |-> t.json]

\* value[key]: Null unless value is an object that has the key
Index(v, key) ==
    IF v.kind = "object" /\ key \in DOMAIN v.fields THEN v.fields[key]
                                                     ELSE JNull

\* Value::is_null
is_null_value(v) == v.kind = "null"

(***************************************************************************)
(* indexer_types: ContractType and ContractInfo                            *)
(***************************************************************************)
Fn(name) == [type |-> "function", name |-> name]
Ev(name) == [type |-> "event", name |-> name]

\* all_names_found: every name is the name of a function entry of the array
all_names_found(parsed_abi, names_to_check) ==
    LET found_names ==
            IF parsed_abi.kind = "array"
               THEN {parsed_abi.items[i].name :
                        i \in {j \in 1..Len(parsed_abi.items) :
                                  parsed_abi.items[j].type = "function"}}
               ELSE {}
    IN  \A name \in names_to_check : name \in found_names

erc20_functions == {"totalSupply", "balanceOf", "transfer"}
erc721_events == {"Transfer"}

\* ContractType::detect_contract_type: "panic" where an expect fails
detect_contract_type(abi_json) ==
    IF is_null_value(abi_json) THEN "Unknown"
    ELSE IF abi_json.kind # "string" THEN "panic"
    ELSE IF ~from_str(abi_json.text).ok THEN "panic"
    ELSE LET parsed_abi == from_str(abi_json.text).value
         IN  IF all_names_found(parsed_abi, erc20_functions) THEN "ERC20"
             ELSE IF all_names_found(parsed_abi, erc721_events) THEN "ERC721"
             ELSE "Unknown"

\* ContractType::to_string
ContractTypeToString(t) ==
    CASE t = "Unknown" -> ""
      [] t = "ERC20" -> "ERC20"
      [] t = "ERC721" -> "ERC721"

\* ContractInfo::new
ContractInfoNew ==
    [contractType |-> "",
     abi |-> EmptyText,
     abi_json |-> JArray(<<>>),
     additionalSources |-> EmptyText,
     compilerSettings |-> EmptyText,
     compilerVersion |-> EmptyText,
     constructorArguments |-> EmptyText,
     contractName |-> EmptyText,
     EVMVersion |-> EmptyText,
     fileName |-> EmptyText,
     isProxy |-> FALSE,
     optimizationUsed |-> FALSE,
     sourceCode |-> EmptyText]

\* ContractInfo::is_null
ContractInfoIsNull(info) ==
    /\ info.contractType = ""
    /\ IsEmpty(info.abi)
    /\ is_null_value(info.abi_json)
    /\ IsEmpty(info.additionalSources)
    /\ IsEmpty(info.compilerSettings)
    /\ IsEmpty(info.compilerVersion)
    /\ IsEmpty(info.constructorArguments)
    /\ IsEmpty(info.contractName)
    /\ IsEmpty(info.EVMVersion)
    /\ IsEmpty(info.fileName)
    /\ ~info.isProxy
    /\ ~info.optimizationUsed
    /\ IsEmpty(info.sourceCode)

(***************************************************************************)
(* The classifier on its own.                                              *)
(***************************************************************************)
\* the entries an ABI is made of here: the functions of the two rule sets,
\* a function and an event named Transfer
AbiEntries ==
    {Fn(n) : n \in {"totalSupply", "balanceOf", "transfer", "ownerOf",
                    "safeTransferFrom", "transferFrom", "Transfer"}}
        \cup {Ev("Transfer")}

\* the lists of at most MaxAbiLen entries
AbiLists == UNION {[1..n -> AbiEntries] : n \in 0..MaxAbiLen}

\* the values handed to detect_contract_type: null, a string that is no
\* JSON, and every list both as a JSON array and as a string holding the
\* JSON text of the array
AbiValues ==
    {JNull, JString(Garbage)}
        \cup {JArray(l) : l \in AbiLists}
        \cup {JString(ToText(JArray(l))) : l \in AbiLists}

classify ==
    /\ ncalls = 0
    /\ \E abi_json \in AbiValues :
          last' = [op |-> "detect_contract_type", call |-> abi_json,
                   result |-> detect_contract_type(abi_json)]
    /\ ncalls' = 1
    /\ UNCHANGED <<schedVars, task>>
    /\ UNCHANGED <<addresses, addr_max, blocks, transactions,
                   transactions_receipts, contracts, tokens, logs,
                   token_transfers, applied>>

ClassifierInit ==
    /\ StoreIdle
    /\ SchedIdle

ClassifierNext ==
    \/ classify

SpecClassifier == ClassifierInit /\ [][ClassifierNext]_vars

(***************************************************************************)
(* blockscout::get_verified_sc_data                                        *)
(***************************************************************************)
Erc20Abi == JArray(<<Fn("totalSupply"), Fn("balanceOf"), Fn("transfer"),
                     Fn("approve"), Ev("Transfer")>>)
OtherAbi == JArray(<<Fn("owner"), Ev("Transfer")>>)

\* what the explorer answers: no answer at all (a transport error or the
\* 60 s timeout), or a status and a body
ExplorerResponses ==
    { [transport |-> "error"],
      [transport |-> "ok", status |-> 404, body |-> Garbage],
      [transport |-> "ok", status |-> 400, body |-> Garbage],
      [transport |-> "ok", status |-> 500, body |-> Garbage],
      [transport |-> "ok", status |-> 200, body |-> Garbage],
      [transport |-> "ok", status |-> 200, body |-> ToText(JNull)],
      [transport |-> "ok", status |-> 200,
       body |-> ToText(JObject([name |-> JString(Raw("Plain")),
                                source_code |-> JString(Raw("contract Plain")),
                                optimization_enabled |-> JBool(TRUE)]))],
      [transport |-> "ok", status |-> 200,
       body |-> ToText(JObject([abi |-> Erc20Abi,
                                name |-> JString(Raw("Token"))]))],
      [transport |-> "ok", status |-> 200,
       body |-> ToText(JObject([abi |-> JString(ToText(Erc20Abi)),
                                name |-> JString(Raw("Token"))]))],
      [transport |-> "ok", status |-> 200,
       body |-> ToText(JObject([abi |-> JString(ToText(OtherAbi)),
                                name |-> JString(Raw("Other"))]))] }

\* StatusCode::is_client_error, StatusCode::is_server_error
is_client_error(status) == 400 <= status /\ status <= 499
is_server_error(status) == 500 <= status /\ status <= 599

Returned(info) == [panic |-> FALSE, info |-> info]
Panicked == [panic |-> TRUE]

\* the ContractInfo built from a parsed body
ContractInfoOf(json) ==
    [contractType |->
         ContractTypeToString(detect_contract_type(Index(json, "abi"))),
     abi |-> ToText(Index(json, "abi")),
     abi_json |-> Index(json, "abi"),
     additionalSources |-> ToText(Index(json, "additional_sources")),
     compilerSettings |-> ToText(Index(json, "compiler_settings")),
     compilerVersion |-> ToText(Index(json, "compiler_version")),
     constructorArguments |-> ToText(Index(json, "constructor_args")),
     contractName |-> ToText(Index(json, "name")),
     EVMVersion |-> ToText(Index(json, "evm_version")),
     fileName |-> ToText(Index(json, "file_path")),
     isProxy |-> FALSE,
     optimizationUsed |->
         ToText(Index(json, "optimization_enabled")) = ToText(JBool(TRUE)),
     sourceCode |-> ToText(Index(json, "source_code"))]

\* get_verified_sc_data: `send().await.unwrap()` panics when there is no
\* answer; a 4xx or 5xx gives ContractInfo::new(); a body that is no JSON is
\* replaced by the empty array
get_verified_sc_data(response) ==
    IF response.transport = "error" THEN Panicked
    ELSE IF is_client_error(response.status) THEN Returned(ContractInfoNew)
    ELSE IF is_server_error(response.status) THEN Returned(ContractInfoNew)
    ELSE LET json == IF from_str(response.body).ok
                        THEN from_str(response.body).value
                        ELSE JArray(<<>>)
         IN  IF is_null_value(json) THEN Returned(ContractInfoNew)
             ELSE IF detect_contract_type(Index(json, "abi")) = "panic"
                     THEN Panicked
                     ELSE Returned(ContractInfoOf(json))

(***************************************************************************)
(* db::insert_smart_contract and indexer::index_smart_contract             *)
(***************************************************************************)
\* serde_json::from_value::<Abi>: an ABI is an array of entries
ParsesAsAbi(v) == v.kind = "array"

\* the creation receipts the node returns
CreationReceipts ==
    {[transaction_hash |-> h] @@ r :
        h \in TxHashes,
        r \in {x \in ReceiptSamples : x.contract_address.some}}

\* the row insert_smart_contract builds once the ABI text is parsed (`abi`)
ContractRow(receipt, code, info, abi, now) ==
    LET null == ContractInfoIsNull(info)
    IN  [address |-> Hex0x(receipt.contract_address.value),
         bytecode |-> HexBytes(code),
         blockNumber |-> receipt.block_number,
         transactionHash |-> Hex0x(receipt.transaction_hash),
         creatorAddress |-> Hex0x(receipt.from),
         contractType |-> IF null THEN "" ELSE info.contractType,
         abi |-> abi,
         sourceCode |-> IF null THEN EmptyText ELSE info.sourceCode,
         additionalSources |->
             IF null THEN EmptyText ELSE info.additionalSources,
         compilerSettings |->
             IF null THEN EmptyText ELSE info.compilerSettings,
         constructorArguments |->
             IF null THEN EmptyText ELSE info.constructorArguments,
         EVMVersion |-> IF null THEN EmptyText ELSE info.EVMVersion,
         fileName |-> IF null THEN EmptyText ELSE info.fileName,
         isProxy |-> IF null THEN FALSE ELSE info.isProxy,
         contractName |-> IF null THEN EmptyText ELSE info.contractName,
         compilerVersion |-> IF null THEN EmptyText ELSE info.compilerVersion,
         optimizationUsed |-> IF null THEN FALSE ELSE info.optimizationUsed,
         insertedAt |-> now]

\* ON CONFLICT ("address") DO UPDATE SET every column but the key and
\* insertedAt
ContractOnConflict(stored, excluded) ==
    [excluded EXCEPT !.insertedAt = stored.insertedAt]

\* the token row of insert_erc20_token with the defaults of TokenInfo::new
TokenRow(receipt, info, now) ==
    [address |-> Hex0x(receipt.contract_address.value),
     type |-> info.contractType,
     name |-> EmptyText,
     symbol |-> EmptyText,
     totalSupply |-> DecimalFromParts(0, 0, 0),
     decimals |-> DecimalFromParts(0, 0, 0),
     totalSupplyUpdatedAtBlock |-> receipt.block_number,
     insertedAt |-> now]

\* insert_smart_contract: what it returns ("panic" where an unwrap or an
\* expect fails) and the tables it leaves.  The ABI is
\* `from_str(abi.as_str()).unwrap()` unless the info is null; after the
\* upsert an ERC20 contract goes on to insert_erc20_token, whose
\* get_erc20_token_data starts with from_value::<Abi>(abi_json).expect, and
\* from there ("constructor_logs") to the logs of the constructor
insert_smart_contract(receipt, code, info, db_ok) ==
    LET null == ContractInfoIsNull(info)
        parsed == IF null THEN [ok |-> TRUE, value |-> JArray(<<>>)]
                          ELSE from_str(info.abi)
        same == [contracts |-> contracts, tokens |-> tokens]
    IN  IF ~parsed.ok THEN [result |-> "panic"] @@ same
        ELSE IF ~db_ok THEN [result |-> "Err"] @@ same
        ELSE
          LET row == ContractRow(receipt, code, info, parsed.value, ncalls)
              old == {r \in contracts : r.address = row.address}
              upserted == IF old = {} THEN contracts \cup {row}
                          ELSE (contracts \ old)
                                  \cup {ContractOnConflict(o, row) : o \in old}
          IN  IF ~null /\ row.contractType = "ERC20"
                 THEN IF ~ParsesAsAbi(info.abi_json)
                         THEN [result |-> "panic", contracts |-> upserted,
                               tokens |-> tokens]
                         ELSE [result |-> "constructor_logs",
                               contracts |-> upserted,
                               tokens |->
                                   {t \in tokens : t.address # row.address}
                                     \cup {TokenRow(receipt, info, ncalls)}]
                 ELSE [result |-> "Ok", contracts |-> upserted,
                       tokens |-> tokens]

\* index_smart_contract: get_code (empty bytes on error), the explorer, the
\* upsert; an Err of insert_smart_contract is logged and Ok(()) returned,
\* a panic unwinds the block task
index_smart_contract ==
    /\ ncalls < MaxContractCalls
    /\ \E receipt \in CreationReceipts,
          code_result \in {Some(<<96, 128>>), None},
          response \in ExplorerResponses,
          db_ok \in BOOLEAN :
          LET code == IF code_result.some THEN code_result.value ELSE <<>>
              verified == get_verified_sc_data(response)
              old == {r \in contracts :
                         r.address = Hex0x(receipt.contract_address.value)}
              call == [receipt |-> receipt, response |-> response,
                       code |-> code]
              out == IF verified.panic
                        THEN [result |-> "panic", contracts |-> contracts,
                              tokens |-> tokens]
                        ELSE insert_smart_contract(receipt, code,
                                                   verified.info, db_ok)
          IN  /\ contracts' = out.contracts
              /\ tokens' = out.tokens
              /\ applied' = IF out.contracts # contracts \/ out.result = "Ok"
                               THEN Applied("index_smart_contract", call)
                               ELSE applied
              /\ last' = [Called("index_smart_contract", call, old, db_ok)
                            EXCEPT !.result = IF out.result = "panic"
                                                 THEN "panic" ELSE "Ok"]
    /\ ncalls' = ncalls + 1
    /\ UNCHANGED <<schedVars, task>>
    /\ UNCHANGED <<addresses, addr_max, blocks, transactions,
                   transactions_receipts, logs, token_transfers>>

ContractInit ==
    /\ StoreIdle
    /\ SchedIdle

ContractNext ==
    \/ index_smart_contract

SpecContract == ContractInit /\ [][ContractNext]_vars

(***************************************************************************)
(* db::insert_log and db::tokens::insert_erc20_transfer                    *)
(***************************************************************************)
\* topics[0] of the ERC-20 events: keccak256 of the event signature
TransferSig == "keccak256(Transfer(address,address,uint256))"
ApprovalSig == "keccak256(Approval(address,address,uint256))"

\* a 32-byte topic that holds an address: the high 12 bytes and the low 20
AddressTopic(high, low20) == [high |-> high, low20 |-> low20]

\* the keys (transaction hash, block hash, log index) of the logs explored:
\* a key and three that differ from it in one component each
LogKeys == {<<"t1", "h1", 0>>, <<"t2", "h1", 0>>, <<"t1", "h2", 0>>,
            <<"t1", "h1", 1>>}

\* the logs a receipt carries, without their key
LogSamples ==
    { [address |-> "a1", log_type |-> None, block_number |-> 1,
       topics |-> <<TransferSig, AddressTopic(0, "a1"),
                    AddressTopic(0, "a2")>>,
       data |-> U256(100, 0)],
      [address |-> "a1", log_type |-> Some("mined"), block_number |-> 2,
       topics |-> <<ApprovalSig, AddressTopic(0, "a2")>>,
       data |-> U256(5, 1)],
      [address |-> "a2", log_type |-> None, block_number |-> 2,
       topics |-> <<>>,
       data |-> U256(0, 0)] }

\* `match log.topics.get(i) { Some(topic) => format!("0x{:x}", topic),
\*  None => "".to_string() }`; the empty string is the empty sequence
TopicText(topics, i) == IF i <= Len(topics) THEN Hex0x(topics[i]) ELSE <<>>

\* the row insert_log builds
LogRow(log, now) ==
    [data |-> log.data,
     index |-> log.log_index,
     type |-> log.log_type,
     firstTopic |-> TopicText(log.topics, 1),
     secondTopic |-> TopicText(log.topics, 2),
     thirdTopic |-> TopicText(log.topics, 3),
     fourthTopic |-> TopicText(log.topics, 4),
     address |-> Hex0x(log.address),
     transactionHash |-> Hex0x(log.transaction_hash),
     blockHash |-> Hex0x(log.block_hash),
     blockNumber |-> log.block_number,
     insertedAt |-> now]

\* the key of ON CONFLICT ("transactionHash", "blockHash", "index")
LogKey(r) == <<r.transactionHash, r.blockHash, r.index>>

\* DO UPDATE SET data, type, the four topics, address, blockNumber
LogOnConflictNothing(stored, excluded) == stored
LogOnConflict(stored, excluded) ==
    [stored EXCEPT !.data = excluded.data,
                   !.type = excluded.type,
                   !.firstTopic = excluded.firstTopic,
                   !.secondTopic = excluded.secondTopic,
                   !.thirdTopic = excluded.thirdTopic,
                   !.fourthTopic = excluded.fourthTopic,
                   !.address = excluded.address,
                   !.blockNumber = excluded.blockNumber]

\* db::get_abi_by_address: "No ABI" when the contract row is absent or its
\* abi is null
get_abi_by_address(address) ==
    LET rows == {c \in contracts : c.address = address}
    IN  IF rows = {} \/ \A c \in rows : is_null_value(c.abi)
           THEN [found |-> FALSE]
           ELSE [found |-> TRUE, abi |-> (CHOOSE c \in rows : TRUE).abi]

\* Contract::decode_event("Transfer", topics, data): the signature and the
\* two indexed addresses come from the topics, the value from the data
decode_event(topics, data) ==
    IF Len(topics) = 3
       THEN [ok |-> TRUE, from |-> topics[2].low20, to |-> topics[3].low20,
             value |-> data]
       ELSE [ok |-> FALSE]

\* the row insert_erc20_transfer builds
TransferRow(log, decoded_log, now) ==
    [contractAddress |-> Hex0x(log.address),
     fromAddress |-> Hex0x(decoded_log.from),
     toAddress |-> Hex0x(decoded_log.to),
     transactionHash |-> Hex0x(log.transaction_hash),
     blockNumber |-> log.block_number,
     blockHash |-> Hex0x(log.block_hash),
     logIndex |-> log.log_index,
     amount |-> DecimalFromI64(decoded_log.value),
     insertedAt |-> now]

TransferKey(r) == <<r.transactionHash, r.blockHash, r.logIndex>>

\* ON CONFLICT (...) DO UPDATE SET fromAddress, toAddress, amount
TransferOnConflict(stored, excluded) ==
    [stored EXCEPT !.fromAddress = excluded.fromAddress,
                   !.toAddress = excluded.toAddress,
                   !.amount = excluded.amount]

insert_erc20_transfer(log, decoded_log) ==
    LET row == TransferRow(log, decoded_log, ncalls)
        old == {r \in token_transfers : TransferKey(r) = TransferKey(row)}
    IN  IF old = {} THEN token_transfers \cup {row}
        ELSE (token_transfers \ old)
                \cup {TransferOnConflict(o, row) : o \in old}

\* a log sub-workflow that reports a missing ABI as an error
AfterLogRowNoAbiErr(log) ==
    LET lookup == get_abi_by_address(Hex0x(log.address))
        same == [token_transfers |-> token_transfers]
    IN  IF ~lookup.found THEN [result |-> "Err"] @@ same
        ELSE IF ~ParsesAsAbi(lookup.abi) THEN [result |-> "panic"] @@ same
        ELSE IF detect_contract_type(lookup.abi) = "panic"
                THEN [result |-> "panic"] @@ same
        ELSE [result |-> "Ok"] @@ same

\* what insert_log does once the log row is written: the ABI lookup, the
\* parse of the ABI, the classification and, for a Transfer log of an ERC-20
\* contract, the token transfer
AfterLogRow(log) ==
    LET lookup == get_abi_by_address(Hex0x(log.address))
        same == [token_transfers |-> token_transfers]
    IN  IF ~lookup.found THEN [result |-> "Ok"] @@ same
        ELSE IF ~ParsesAsAbi(lookup.abi) THEN [result |-> "panic"] @@ same
        ELSE IF detect_contract_type(lookup.abi) = "panic"
                THEN [result |-> "panic"] @@ same
        ELSE IF /\ detect_contract_type(lookup.abi) = "ERC20"
                /\ Len(log.topics) >= 1
                /\ log.topics[1] = TransferSig
                THEN IF decode_event(log.topics, log.data).ok
                        THEN IF AsU128Panics(log.data)
                                THEN [result |-> "panic"] @@ same
                                ELSE [result |-> "Ok",
                                      token_transfers |->
                                          insert_erc20_transfer(
                                              log,
                                              decode_event(log.topics,
                                                           log.data))]
                        ELSE [result |-> "Err"] @@ same
        ELSE [result |-> "Ok"] @@ same

\* insert_log; db_ok = FALSE is a failure of the pool or of the statement
insert_log ==
    /\ ncalls < MaxCalls
    /\ \E k \in LogKeys, s \in LogSamples, db_ok \in BOOLEAN :
          LET log == [transaction_hash |-> k[1], block_hash |-> k[2],
                      log_index |-> k[3]] @@ s
              row == LogRow(log, ncalls)
              old == {r \in logs : LogKey(r) = LogKey(row)}
              rest == AfterLogRow(log)
          IN  /\ logs' =
                    IF ~db_ok THEN logs
                    ELSE IF old = {} THEN logs \cup {row}
                    ELSE (logs \ old) \cup {LogOnConflict(o, row) : o \in old}
              /\ token_transfers' = IF db_ok THEN rest.token_transfers
                                             ELSE token_transfers
              /\ applied' = IF db_ok THEN Applied("insert_log", log)
                                     ELSE applied
              /\ last' = [Called("insert_log", log, old, db_ok)
                            EXCEPT !.result = IF db_ok THEN rest.result
                                                       ELSE "Err"]
    /\ ncalls' = ncalls + 1
    /\ UNCHANGED <<schedVars, task>>
    /\ UNCHANGED <<addresses, addr_max, blocks, transactions,
                   transactions_receipts, contracts, tokens>>

\* the contracts the contract sub-workflow has left before the logs arrive:
\* none, one whose explorer entry has no ABI, one whose ABI is a JSON string
LogInitContracts ==
    LET receipt == CHOOSE r \in CreationReceipts : TRUE
        bodies == {JObject([name |-> JString(Raw("Plain"))]),
                   JObject([abi |-> JString(ToText(Erc20Abi))])}
    IN  {{}} \cup
        {{ContractRow(receipt, <<96, 128>>, ContractInfoOf(json),
                      from_str(ContractInfoOf(json).abi).value, 0)} :
            json \in bodies}

LogInit ==
    /\ ncalls = 0
    /\ last = NoCall
    /\ addresses = {}
    /\ addr_max = {}
    /\ blocks = {}
    /\ transactions = {}
    /\ transactions_receipts = {}
    /\ contracts \in LogInitContracts
    /\ tokens = {}
    /\ logs = {}
    /\ token_transfers = {}
    /\ applied = <<>>
    /\ task = NoTask
    /\ SchedIdle

LogNext ==
    \/ insert_log

SpecLog == LogInit /\ [][LogNext]_vars

\* the Transfer logs handed to insert_erc20_transfer, without their key:
\* values of 100, 2^63 + 7, 2^64 + 7 and 2^128 + 7, the second with topics
\* whose high 12 bytes are not zero
TransferSamples ==
    {[address |-> "a1", log_type |-> None, block_number |-> 1,
      topics |-> <<TransferSig, AddressTopic(t, "a1"), AddressTopic(t, "a2")>>,
      data |-> d] :
        <<t, d>> \in {<<0, U256(100, 0)>>,
                      <<1, WideU256(7, 0, TRUE, 0, 0)>>,
                      <<0, WideU256(7, 0, FALSE, 1, 0)>>,
                      <<0, WideU256(7, 0, FALSE, 0, 1)>>}}

\* tokens::insert_erc20_transfer on the Transfer that decode_event returns
\* for the log; db_ok = FALSE is a failure of the pool or of the statement
InsertErc20Transfer ==
    /\ ncalls < MaxCalls
    /\ \E k \in LogKeys, s \in TransferSamples, db_ok \in BOOLEAN :
          LET log == [transaction_hash |-> k[1], block_hash |-> k[2],
                      log_index |-> k[3]] @@ s
              decoded_log == decode_event(log.topics, log.data)
              old == {r \in token_transfers :
                         TransferKey(r) =
                             TransferKey(TransferRow(log, decoded_log, 0))}
              panics == AsU128Panics(decoded_log.value)
          IN  /\ token_transfers' =
                    IF db_ok /\ ~panics
                       THEN insert_erc20_transfer(log, decoded_log)
                       ELSE token_transfers
              /\ last' = [Called("insert_erc20_transfer", log, old, db_ok)
                            EXCEPT !.result = IF panics THEN "panic" ELSE @]
    /\ ncalls' = ncalls + 1
    /\ UNCHANGED <<schedVars, task>>
    /\ UNCHANGED <<addresses, addr_max, blocks, transactions,
                   transactions_receipts, contracts, tokens, logs, applied>>

TransferNext ==
    \/ InsertErc20Transfer

SpecTransfer == TxInit /\ [][TransferNext]_vars

(***************************************************************************)
(* db::tokens::insert_erc20_token and get_erc20_token_data                 *)
(***************************************************************************)
\* the four methods get_erc20_token_data calls, in the order of the calls,
\* and what the contract answers to each
TokenMethods == <<"totalSupply", "name", "symbol", "decimals">>
ChainToken ==
    [totalSupply |-> U256(1000, 0), name |-> ToText(JString("Token")),
     symbol |-> ToText(JString("TKN")), decimals |-> U256(18, 0)]

\* get_erc20_token_data: `match contract.method(m, ()) { Ok(method) =>
\* method.call().await?, Err(e) => default }`: a method the ABI lacks gives
\* the default, a call that fails (m in `failing`) returns Err at once;
\* `from_value(abi_json).expect(..)` panics on what is no ABI
get_erc20_token_data(abi_json, failing) ==
    LET answer(m) == IF all_names_found(abi_json, {m})
                        THEN ChainToken[m]
                        ELSE IF m \in {"totalSupply", "decimals"}
                                THEN U256(0, 0) ELSE EmptyText
        called == {i \in 1..Len(TokenMethods) :
                      all_names_found(abi_json, {TokenMethods[i]})}
    IN  IF ~ParsesAsAbi(abi_json) THEN [result |-> "panic"]
        ELSE IF \E i \in called : TokenMethods[i] \in failing
                THEN [result |-> "Err"]
        ELSE [result |-> "Ok",
              token_data |->
                  [totalSupply |-> DecimalFromI64(answer("totalSupply")),
                   name |-> answer("name"),
                   symbol |-> answer("symbol"),
                   decimals |-> DecimalFromParts(answer("decimals").lo,
                                                 answer("decimals").hi, 0)]]

\* the row insert_erc20_token builds
TokenDataRow(address, contractType, token_data, bn, now) ==
    [address |-> Hex0x(address),
     type |-> contractType,
     name |-> token_data.name,
     symbol |-> token_data.symbol,
     totalSupply |-> token_data.totalSupply,
     decimals |-> token_data.decimals,
     totalSupplyUpdatedAtBlock |-> bn,
     insertedAt |-> now]

\* ON CONFLICT (address) DO UPDATE SET name, symbol, totalSupply, decimals,
\* holderCount, totalSupplyUpdatedAtBlock
TokenOnConflict(stored, excluded) ==
    [excluded EXCEPT !.type = stored.type, !.insertedAt = stored.insertedAt]

\* insert_erc20_token(address, verified_sc_data, block_number): the token
\* data first (`?` hands its Err on), then the upsert
InsertErc20Token ==
    /\ ncalls < MaxCalls
    /\ \E address \in Addresses, bn \in {1, 2}, db_ok \in BOOLEAN,
          abi_json \in {JArray(<<Fn("totalSupply"), Fn("name"),
                                 Fn("symbol"), Fn("decimals")>>),
                        JArray(<<Fn("totalSupply"), Fn("balanceOf"),
                                 Fn("transfer")>>)},
          failing \in SUBSET {"totalSupply", "symbol"} :
          LET data == get_erc20_token_data(abi_json, failing)
              call == [address |-> address, abi_json |-> abi_json,
                       failing |-> failing, block_number |-> bn]
              old == {r \in tokens : r.address = Hex0x(address)}
              row == TokenDataRow(address, "ERC20", data.token_data, bn,
                                  ncalls)
              upsert == data.result = "Ok" /\ db_ok
          IN  /\ tokens' = IF ~upsert THEN tokens
                           ELSE IF old = {} THEN tokens \cup {row}
                           ELSE (tokens \ old)
                                   \cup {TokenOnConflict(o, row) : o \in old}
              /\ last' = [Called("insert_erc20_token", call, old, db_ok)
                            EXCEPT !.result = IF data.result = "Ok"
                                                 THEN @ ELSE data.result]
    /\ ncalls' = ncalls + 1
    /\ UNCHANGED <<schedVars, task>>
    /\ UNCHANGED <<addresses, addr_max, blocks, transactions,
                   transactions_receipts, contracts, logs, token_transfers,
                   applied>>

TokenNext ==
    \/ InsertErc20Token

SpecToken == TxInit /\ [][TokenNext]_vars

(***************************************************************************)
(* A block task: index_block, index_transaction, index_address.            *)
(***************************************************************************)
\* the block numbers a task is spawned for
TaskBlocks == {1, 2}

\* the chain the node serves: block b lists up to two transactions, the
\* first a call that emits two logs, the second a contract creation that
\* emits one
TxHash(b, k) == <<b, k>>
BlockHash(b) == <<"h", b>>

ChainBlocks(b) ==
    {[number |-> b, hash |-> BlockHash(b), gas_used |-> U256(5, 0),
      transactions |-> txs] :
        txs \in {<<>>, <<TxHash(b, 1)>>, <<TxHash(b, 1), TxHash(b, 2)>>,
                 <<TxHash(b, 2), TxHash(b, 1)>>}}

ChainTransaction(h) ==
    [hash |-> h, from |-> "a1",
     to |-> IF h[2] = 1 THEN Some("a2") ELSE None,
     value |-> U256(5, 0), block_number |-> h[1]]

ChainLogs(h) ==
    LET key(i) == [transaction_hash |-> h, block_hash |-> BlockHash(h[1]),
                   log_index |-> i, block_number |-> h[1],
                   log_type |-> None]
    IN  IF h[2] = 1
           THEN << key(0) @@ [address |-> "a2",
                              topics |-> <<TransferSig, AddressTopic(0, "a1"),
                                           AddressTopic(0, "a2")>>,
                              data |-> U256(100, 0)],
                   key(1) @@ [address |-> "a2",
                              topics |-> <<ApprovalSig,
                                           AddressTopic(0, "a1")>>,
                              data |-> U256(5, 0)] >>
           ELSE << key(0) @@ [address |-> "a2", topics |-> <<>>,
                              data |-> U256(0, 0)] >>

ChainReceipt(h) ==
    [transaction_hash |-> h, from |-> "a1",
     to |-> IF h[2] = 1 THEN Some("a2") ELSE None,
     contract_address |-> IF h[2] = 2 THEN Some("a2") ELSE None,
     status |-> Some(1), block_number |-> h[1], logs |-> ChainLogs(h)]

\* what the node answers about an account
ChainAccount ==
    [balance |-> U256(99, 0), count |-> U256(2, 0), code |-> <<96, 128>>,
     storage |-> 7]

BlockKey(r) == r.number
TransactionKeyBlock(r) == r.blockNumber
TransactionKey(r) == r.hash
ReceiptKey(r) == r.transactionHash
AddressKey(r) == r.address

\* INSERT ... ON CONFLICT: the table after the statement
UpsertBlockNothing(row) == blocks
UpsertBlock(row) ==
    LET old == {r \in blocks : BlockKey(r) = BlockKey(row)}
    IN  IF old = {} THEN blocks \cup {row}
        ELSE (blocks \ old) \cup {BlockOnConflict(o, row) : o \in old}

UpsertTransaction(row) ==
    LET old == {r \in transactions : TransactionKey(r) = TransactionKey(row)}
    IN  IF old = {} THEN transactions \cup {row}
        ELSE (transactions \ old)
                \cup {TransactionOnConflict(o, row) : o \in old}

UpsertReceipt(row) ==
    LET old == {r \in transactions_receipts : ReceiptKey(r) = ReceiptKey(row)}
    IN  IF old = {} THEN transactions_receipts \cup {row}
        ELSE (transactions_receipts \ old)
                \cup {ReceiptOnConflict(o, row) : o \in old}

UpsertAddress(row) ==
    LET old == {r \in addresses : AddressKey(r) = AddressKey(row)}
    IN  IF old = {} THEN addresses \cup {row}
        ELSE (addresses \ old) \cup {AddressOnConflict(o, row) : o \in old}

UpsertLog(row) ==
    LET old == {r \in logs : LogKey(r) = LogKey(row)}
    IN  IF old = {} THEN logs \cup {row}
        ELSE (logs \ old) \cup {LogOnConflict(o, row) : o \in old}

\* one more call of the task has failed
CanFail == task.faults < MaxFaults
Faults(ok) == IF ok THEN task.faults ELSE task.faults + 1

\* the history of the task: the step, the transaction it belongs to (the
\* empty sequence at block level) and how it ended
Event(op, tx, result) == [op |-> op, tx |-> tx, result |-> result]
Traced(op, tx, result) == Append(task.trace, Event(op, tx, result))

\* index_transaction returns r to index_block
Return(op, r) ==
    [task EXCEPT !.pc = "transaction_return", !.tx_result = r,
                 !.faults = Faults(FALSE),
                 !.trace = Traced(op, task.transaction_hash, "Err")]

taskTables == <<blocks, transactions, transactions_receipts, addresses,
                contracts, tokens, logs, token_transfers>>

\* tokio::spawn(index_block(block_number, ..))
TaskStart ==
    /\ task.pc = "idle"
    /\ \E b \in TaskBlocks :
          task' = [task EXCEPT !.pc = "get_block", !.block_number = b]
    /\ UNCHANGED <<schedVars, ncalls, last, addr_max, applied, taskTables>>

\* a task that returns Err when the node has no block
GetBlockFails ==
    /\ task.pc = "get_block"
    /\ \/ \E block \in ChainBlocks(task.block_number) :
             task' = [task EXCEPT !.pc = "insert_block",
                                  !.block = Some(block),
                                  !.trace = Traced("get_block", <<>>, "Ok")]
       \/ /\ CanFail
          /\ task' = [task EXCEPT !.pc = "done", !.result = "Err",
                                  !.faults = Faults(FALSE),
                                  !.trace = Traced("get_block", <<>>, "Err")]
    /\ UNCHANGED <<schedVars, ncalls, last, addr_max, applied, taskTables>>

\* `match ws_client.get_block(block_number).await`: anything but
\* Ok(Some(block)) is logged and the task returns Ok(())
GetBlock ==
    /\ task.pc = "get_block"
    /\ \/ \E block \in ChainBlocks(task.block_number) :
             task' = [task EXCEPT !.pc = "insert_block",
                                  !.block = Some(block),
                                  !.trace = Traced("get_block", <<>>, "Ok")]
       \/ /\ CanFail
          /\ task' = [task EXCEPT !.pc = "done", !.result = "Ok",
                                  !.faults = Faults(FALSE),
                                  !.trace = Traced("get_block", <<>>, "Err")]
    /\ UNCHANGED <<schedVars, ncalls, last, addr_max, applied, taskTables>>

\* a task that logs a failure of insert_block and goes on
InsertBlockGoesOn ==
    /\ task.pc = "insert_block"
    /\ \E db_ok \in BOOLEAN :
          /\ db_ok \/ CanFail
          /\ blocks' = IF db_ok
                          THEN UpsertBlock(BlockRow(task.block.value, ncalls))
                          ELSE blocks
          /\ task' = [task EXCEPT
                        !.pc = "for_transaction",
                        !.hashes = task.block.value.transactions,
                        !.faults = Faults(db_ok),
                        !.trace = Traced("insert_block", <<>>,
                                         IF db_ok THEN "Ok" ELSE "Err")]
    /\ ncalls' = ncalls + 1
    /\ UNCHANGED <<schedVars, last, addr_max, applied, transactions,
                   transactions_receipts, addresses, contracts, tokens, logs,
                   token_transfers>>

\* `if let Err(e) = db::insert_block(..) { log; return Err(..) }`
InsertBlock ==
    /\ task.pc = "insert_block"
    /\ \E db_ok \in BOOLEAN :
          /\ db_ok \/ CanFail
          /\ IF db_ok
                THEN /\ blocks' = UpsertBlock(
                                    BlockRow(task.block.value, ncalls))
                     /\ task' = [task EXCEPT
                                   !.pc = "for_transaction",
                                   !.hashes = task.block.value.transactions,
                                   !.trace = Traced("insert_block", <<>>,
                                                    "Ok")]
                ELSE /\ UNCHANGED blocks
                     /\ task' = [task EXCEPT
                                   !.pc = "done", !.result = "Err",
                                   !.faults = Faults(FALSE),
                                   !.trace = Traced("insert_block", <<>>,
                                                    "Err")]
    /\ ncalls' = ncalls + 1
    /\ UNCHANGED <<schedVars, last, addr_max, applied, transactions,
                   transactions_receipts, addresses, contracts, tokens, logs,
                   token_transfers>>

\* `for transaction_hash in block.transactions`, and `Ok(())` after it
ForTransaction ==
    /\ task.pc = "for_transaction"
    /\ IF task.hashes = <<>>
          THEN task' = [task EXCEPT !.pc = "done", !.result = "Ok"]
          ELSE task' = [task EXCEPT
                          !.pc = "get_transaction",
                          !.transaction_hash = Head(task.hashes),
                          !.hashes = Tail(task.hashes),
                          !.transaction = None,
                          !.receipt = None,
                          !.logs = <<>>,
                          !.trace = Traced("index_transaction",
                                           Head(task.hashes), "called")]
    /\ UNCHANGED <<schedVars, ncalls, last, addr_max, applied, taskTables>>

\* a workflow that indexes the addresses without inserting the transaction
GetTransactionSkipsInsert ==
    /\ task.pc = "get_transaction"
    /\ \/ task' = [task EXCEPT
                     !.pc = "from_address",
                     !.transaction =
                         Some(ChainTransaction(task.transaction_hash)),
                     !.trace = Traced("get_transaction",
                                      task.transaction_hash, "Ok")]
       \/ /\ CanFail
          /\ task' = Return("get_transaction", "Ok")
    /\ UNCHANGED <<schedVars, ncalls, last, addr_max, applied, taskTables>>

\* `match ws_client.get_transaction(transaction_hash).await`: anything but
\* Ok(Some(transaction)) is logged and index_transaction returns Ok(())
GetTransaction ==
    /\ task.pc = "get_transaction"
    /\ \/ task' = [task EXCEPT
                     !.pc = "insert_transaction",
                     !.transaction =
                         Some(ChainTransaction(task.transaction_hash)),
                     !.trace = Traced("get_transaction",
                                      task.transaction_hash, "Ok")]
       \/ /\ CanFail
          /\ task' = Return("get_transaction", "Ok")
    /\ UNCHANGED <<schedVars, ncalls, last, addr_max, applied, taskTables>>

\* `if let Err(e) = db::insert_transaction(..) { log; return Err(..) }`
InsertTransaction ==
    /\ task.pc = "insert_transaction"
    /\ \E db_ok \in BOOLEAN :
          /\ db_ok \/ CanFail
          /\ IF db_ok
                THEN /\ transactions' =
                            UpsertTransaction(
                                TransactionRow(task.transaction.value))
                     /\ task' = [task EXCEPT
                                   !.pc = "from_address",
                                   !.trace = Traced("insert_transaction",
                                                    task.transaction_hash,
                                                    "Ok")]
                ELSE /\ UNCHANGED transactions
                     /\ task' = Return("insert_transaction", "Err")
    /\ ncalls' = ncalls + 1
    /\ UNCHANGED <<schedVars, last, addr_max, applied, blocks,
                   transactions_receipts, addresses, contracts, tokens, logs,
                   token_transfers>>

\* the calls of index_address that can fail
AddressCalls == {"get_balance", "get_code", "get_storage_at",
                 "get_transaction_count", "insert_address"}

\* the failures after which index_address returns Err: `return
\* Err(e.to_string())` of get_balance and of get_transaction_count
PropagatesAll(failing) == failing # "none"
Propagates(failing) == failing \in {"get_balance", "get_transaction_count"}

\* index_address(address, transaction.block_number): a failure of
\* get_balance or get_transaction_count returns Err, one of get_code or
\* get_storage_at is replaced by empty bytes or the zero hash, one of
\* insert_address is logged and Ok(()) returned
IndexAddress(at, op, address, next) ==
    /\ task.pc = at
    /\ \E failing \in {"none"} \cup AddressCalls :
          /\ failing = "none" \/ CanFail
          /\ IF Propagates(failing)
                THEN /\ task' = [Return(op, "Err") EXCEPT
                                   !.failing = failing]
                     /\ UNCHANGED <<addresses, ncalls>>
                ELSE /\ addresses' =
                            IF failing = "insert_address" THEN addresses
                            ELSE UpsertAddress(
                                   AddressRow(
                                     address, ChainAccount.balance,
                                     ChainAccount.count, ChainAccount.count,
                                     IF failing = "get_storage_at"
                                        THEN 0 ELSE ChainAccount.storage,
                                     IF failing = "get_code"
                                        THEN <<>> ELSE ChainAccount.code,
                                     task.transaction.value.block_number))
                     /\ ncalls' = ncalls + 1
                     /\ task' = [task EXCEPT
                                   !.pc = next,
                                   !.failing = failing,
                                   !.faults = Faults(failing = "none"),
                                   !.trace = Traced(
                                       op, task.transaction_hash,
                                       IF failing = "insert_address"
                                          THEN "Err" ELSE "Ok")]
    /\ UNCHANGED <<schedVars, last, addr_max, applied, blocks, transactions,
                   transactions_receipts, contracts, tokens, logs,
                   token_transfers>>

\* `index_address(transaction.from, ..)`
IndexFromAddress ==
    /\ task.pc = "from_address"
    /\ IndexAddress("from_address", "index_address(from)",
                    task.transaction.value.from, "to_address")

\* `if transaction.to.unwrap_or(Address::zero()) != Address::zero()`
ToIsZero == ~task.transaction.value.to.some

IndexToAddress ==
    /\ task.pc = "to_address"
    /\ ~ToIsZero
    /\ IndexAddress("to_address", "index_address(to)",
                    task.transaction.value.to.value, "get_receipt")

SkipToAddress ==
    /\ task.pc = "to_address"
    /\ ToIsZero
    /\ task' = [task EXCEPT !.pc = "get_receipt"]
    /\ UNCHANGED <<schedVars, ncalls, last, addr_max, applied, taskTables>>

\* a receipt fetch whose failure is returned as an error
GetTransactionReceiptFails ==
    /\ task.pc = "get_receipt"
    /\ \/ task' = [task EXCEPT
                     !.pc = "insert_receipt",
                     !.receipt = Some(ChainReceipt(task.transaction_hash)),
                     !.trace = Traced("get_transaction_receipt",
                                      task.transaction_hash, "Ok")]
       \/ /\ CanFail
          /\ task' = Return("get_transaction_receipt", "Err")
    /\ UNCHANGED <<schedVars, ncalls, last, addr_max, applied, taskTables>>

\* `match ws_client.get_transaction_receipt(transaction_hash).await`:
\* anything but Ok(Some(receipt)) is logged and Ok(()) returned
GetTransactionReceipt ==
    /\ task.pc = "get_receipt"
    /\ \/ task' = [task EXCEPT
                     !.pc = "insert_receipt",
                     !.receipt = Some(ChainReceipt(task.transaction_hash)),
                     !.trace = Traced("get_transaction_receipt",
                                      task.transaction_hash, "Ok")]
       \/ /\ CanFail
          /\ task' = Return("get_transaction_receipt", "Ok")
    /\ UNCHANGED <<schedVars, ncalls, last, addr_max, applied, taskTables>>

\* `if let Err(e) = db::insert_transaction_receipt(..) { log; return Err }`,
\* then `if let Some(contract_address) = transaction_receipt.contract_address`
InsertTransactionReceipt ==
    /\ task.pc = "insert_receipt"
    /\ \E db_ok \in BOOLEAN :
          /\ db_ok \/ CanFail
          /\ IF db_ok
                THEN /\ transactions_receipts' =
                            UpsertReceipt(ReceiptRow(task.receipt.value))
                     /\ task' = [task EXCEPT
                                   !.pc = IF task.receipt.value
                                               .contract_address.some
                                             THEN "contract_address"
                                             ELSE "for_log",
                                   !.logs = task.receipt.value.logs,
                                   !.trace = Traced(
                                       "insert_transaction_receipt",
                                       task.transaction_hash, "Ok")]
                ELSE /\ UNCHANGED transactions_receipts
                     /\ task' = Return("insert_transaction_receipt", "Err")
    /\ ncalls' = ncalls + 1
    /\ UNCHANGED <<schedVars, last, addr_max, applied, blocks, transactions,
                   addresses, contracts, tokens, logs, token_transfers>>

\* `index_address(contract_address, ..)`
IndexContractAddress ==
    /\ task.pc = "contract_address"
    /\ IndexAddress("contract_address", "index_address(contract)",
                    task.receipt.value.contract_address.value,
                    "smart_contract")

\* `index_smart_contract(transaction_receipt.clone(), ..)`: always Ok(()),
\* unless the explorer call or the upsert panics
IndexSmartContract ==
    /\ task.pc = "smart_contract"
    /\ \E code_ok \in BOOLEAN, response \in ExplorerResponses,
          db_ok \in BOOLEAN :
          LET verified == get_verified_sc_data(response)
              out == IF verified.panic
                        THEN [result |-> "panic", contracts |-> contracts,
                              tokens |-> tokens]
                        ELSE insert_smart_contract(
                                 task.receipt.value,
                                 IF code_ok THEN ChainAccount.code ELSE <<>>,
                                 verified.info, db_ok)
          IN  /\ (code_ok /\ db_ok) \/ CanFail
              /\ contracts' = out.contracts
              /\ tokens' = out.tokens
              /\ task' = [task EXCEPT
                            !.pc = IF out.result = "panic" THEN "done"
                                                           ELSE "for_log",
                            !.result = IF out.result = "panic" THEN "panic"
                                                               ELSE @,
                            !.faults = Faults(code_ok /\ db_ok),
                            !.trace = Traced("index_smart_contract",
                                             task.transaction_hash,
                                             out.result)]
    /\ ncalls' = ncalls + 1
    /\ UNCHANGED <<schedVars, last, addr_max, applied, blocks, transactions,
                   transactions_receipts, addresses, logs, token_transfers>>

\* `for log in transaction_receipt.logs { if let Err(e) = db::insert_log(..)
\* { log; return Err(..) } }`, and the `Ok(())` that ends index_transaction
ForLog ==
    /\ task.pc = "for_log"
    /\ IF task.logs = <<>>
          THEN /\ task' = [task EXCEPT !.pc = "transaction_return",
                                       !.tx_result = "Ok"]
               /\ UNCHANGED <<logs, token_transfers, ncalls>>
          ELSE \E db_ok \in BOOLEAN :
                 LET log == Head(task.logs)
                     rest == AfterLogRow(log)
                     result == IF db_ok THEN rest.result ELSE "Err"
                     traced == Traced("insert_log", LogKey(LogRow(log, 0)),
                                      result)
                 IN  /\ db_ok \/ CanFail
                     /\ logs' = IF db_ok
                                   THEN UpsertLog(LogRow(log, ncalls))
                                   ELSE logs
                     /\ token_transfers' = IF db_ok THEN rest.token_transfers
                                                    ELSE token_transfers
                     /\ ncalls' = ncalls + 1
                     /\ task' =
                          IF result = "Ok"
                             THEN [task EXCEPT !.logs = Tail(task.logs),
                                               !.trace = traced]
                          ELSE IF result = "Err"
                             THEN [task EXCEPT !.pc = "transaction_return",
                                               !.tx_result = "Err",
                                               !.faults = Faults(db_ok),
                                               !.trace = traced]
                          ELSE [task EXCEPT !.pc = "done",
                                            !.result = "panic",
                                            !.trace = traced]
    /\ UNCHANGED <<schedVars, last, addr_max, applied, blocks, transactions,
                   transactions_receipts, addresses, contracts, tokens>>

\* `if let Err(e) = index_transaction(..) { log_error!(..) }`: whatever the
\* transaction workflow returned, the loop over the hashes goes on
BlockContinuesOnOk(tx_result) == tx_result = "Ok"
BlockContinues(tx_result) == tx_result \in {"Ok", "Err"}

TransactionReturn ==
    /\ task.pc = "transaction_return"
    /\ task' = IF BlockContinues(task.tx_result)
                  THEN [task EXCEPT
                          !.pc = "for_transaction",
                          !.trace = Traced("index_transaction",
                                           task.transaction_hash,
                                           task.tx_result)]
                  ELSE [task EXCEPT
                          !.pc = "done", !.result = "Err",
                          !.trace = Traced("index_transaction",
                                           task.transaction_hash,
                                           task.tx_result)]
    /\ UNCHANGED <<schedVars, ncalls, last, addr_max, applied, taskTables>>

TaskInit ==
    /\ StoreIdle
    /\ SchedIdle

TaskNext ==
    \/ TaskStart
    \/ GetBlock
    \/ InsertBlock
    \/ ForTransaction
    \/ GetTransaction
    \/ InsertTransaction
    \/ IndexFromAddress
    \/ IndexToAddress
    \/ SkipToAddress
    \/ GetTransactionReceipt
    \/ InsertTransactionReceipt
    \/ IndexContractAddress
    \/ IndexSmartContract
    \/ ForLog
    \/ TransactionReturn

SpecTask == TaskInit /\ [][TaskNext]_vars

(***************************************************************************)
(* Scheduler: index_blocks and run_live.                                   *)
(***************************************************************************)
Outcomes == {"ok", "err", "panic"}

\* a block task as the scheduler sees it: the block it indexes, whether the
\* task's future owns a semaphore permit, and "running" or how it ended
Task(b, p) == [block |-> b, permit |-> p, state |-> "running"]

\* the tasks spawned and not yet completed
InFlight == {i \in 1..Len(tasks) : tasks[i].state = "running"}

\* `for block_number in batch_start.as_u64()..batch_end.as_u64()`: the range
\* excludes its upper end
InRangeInclusive(b, hi) == b <= hi
InRange(b, hi) == b < hi

\* a task that is handed the session numbered as its block
block_index(b) == b

\* `let ws_client_index = block_number as usize % ws_client_count;`
ws_client_index(b) == b % ws_client_count

\* `let db_pool_index = block_number as usize % db_pool_count;`
db_pool_index(b) == b % db_pool_count

\* `let total_blocks = end_block.as_u64() - start_block.as_u64();` and the
\* counters at 0
StatsAtStart ==
    [NoStats EXCEPT !.total_blocks = end_block - start_block]

\* progress counters that start over with every report
ProgressStatsResetsTotal(s, report) ==
    LET processed == s.blocks_processed + max_concurrency
        total == s.blocks_processed_total + max_concurrency
    IN  [s EXCEPT !.batches = @ + 1,
                  !.reported = report,
                  !.blocks_processed = IF report THEN 0 ELSE processed,
                  !.blocks_processed_total = IF report THEN 0 ELSE total,
                  !.remaining_blocks =
                      IF report /\ total <= s.total_blocks
                         THEN s.total_blocks - total ELSE @,
                  !.underflow = @ \/ (report /\ total > s.total_blocks)]

\* the statistics at the end of a batch: both counters grow by
\* max_concurrency; when 5 s have passed since the last report (report),
\* `remaining_blocks = total_blocks - blocks_processed_total` is computed in
\* u64, the report is logged and blocks_processed starts again at 0
ProgressStats(s, report) ==
    LET processed == s.blocks_processed + max_concurrency
        total == s.blocks_processed_total + max_concurrency
    IN  [s EXCEPT !.batches = @ + 1,
                  !.reported = report,
                  !.blocks_processed = IF report THEN 0 ELSE processed,
                  !.blocks_processed_total = total,
                  !.remaining_blocks =
                      IF report /\ total <= s.total_blocks
                         THEN s.total_blocks - total ELSE @,
                  !.underflow = @ \/ (report /\ total > s.total_blocks)]

\* `if block_number > end_block.as_u64() { continue; }`
SkipsNever(b) == FALSE
Skips(b) == b > end_block

SchedInit ==
    /\ entry \in {"run", "run_last_blocks", "run_live"}
    /\ mode \in {"range", "live"}
    /\ mode = IF entry = "run_live" THEN "live" ELSE "range"
    /\ max_concurrency \in 1..MaxConc
    /\ start_block \in 0..MaxBlock
    /\ end_block \in start_block..MaxBlock
    /\ entry = "run_last_blocks" =>
          \E last_block \in 1..MaxBlock :
             \E number_of_blocks \in 1..last_block :
                /\ start_block = last_block - number_of_blocks
                /\ end_block = last_block
    /\ failed = {}
    /\ pc = IF mode = "range" THEN "while" ELSE "live_next"
    /\ batch_start = start_block
    /\ batch_end = start_block + max_concurrency
    /\ block_number = 0
    /\ permits = max_concurrency
    /\ permit = FALSE
    /\ tasks = <<>>
    /\ spawned = <<>>
    /\ headers = 0
    /\ stats = IF mode = "range" THEN StatsAtStart ELSE NoStats
    /\ boot = NoBoot
    /\ StoreIdle

\* NB_OF_WS_CONNECTIONS and NB_OF_DB_CONNECTIONS are not set: one session,
\* one pool
DefaultPools ==
    /\ ws_client_count = 1
    /\ db_pool_count = 1

\* `while batch_end <= end_block {` and, when it fails,
\* `if batch_start < end_block {`
LoopTest ==
    /\ pc = "while"
    /\ IF batch_end <= end_block
          THEN /\ pc' = "batch_for"
               /\ tasks' = <<>>
               /\ block_number' = batch_start
          ELSE IF batch_start < end_block
                  THEN /\ pc' = "tail_for"
                       /\ tasks' = <<>>
                       /\ block_number' = batch_start
                  ELSE /\ pc' = "done"
                       /\ UNCHANGED <<tasks, block_number>>
    /\ UNCHANGED <<storeVars, entry, failed, stats, envVars>>
    /\ UNCHANGED <<mode, start_block, end_block, max_concurrency, batch_start,
                   batch_end, permits, permit, spawned, headers>>

\* `let permit = semaphore.clone().acquire_owned().await.unwrap();`
\* suspends while no permit is available
BatchAcquire ==
    /\ pc = "batch_for"
    /\ InRange(block_number, batch_end)
    /\ permits > 0
    /\ permits' = permits - 1
    /\ permit' = TRUE
    /\ pc' = "batch_spawn"
    /\ UNCHANGED <<storeVars, entry, failed, stats, envVars>>
    /\ UNCHANGED <<mode, start_block, end_block, max_concurrency, batch_start,
                   batch_end, block_number, tasks, spawned, headers>>

\* the rest of the loop body: the skip (which drops the permit) or the spawn
\* of a task that owns the permit
BatchSpawn ==
    /\ pc = "batch_spawn"
    /\ IF Skips(block_number)
          THEN /\ permits' = permits + 1
               /\ UNCHANGED <<tasks, spawned>>
          ELSE /\ tasks' = Append(tasks, Task(block_number, TRUE))
               /\ spawned' = Append(spawned,
                     [block |-> block_number, phase |-> "batch",
                      ws_client |-> ws_client_index(block_number),
                      db_pool |-> db_pool_index(block_number)])
               /\ UNCHANGED permits
    /\ permit' = FALSE
    /\ block_number' = block_number + 1
    /\ pc' = "batch_for"
    /\ UNCHANGED <<storeVars, entry, failed, stats, envVars>>
    /\ UNCHANGED <<mode, start_block, end_block, max_concurrency, batch_start,
                   batch_end, headers>>

\* the for loop is exhausted: go on to `for task in tasks`
BatchForEnd ==
    /\ pc = "batch_for"
    /\ ~InRange(block_number, batch_end)
    /\ pc' = "batch_join"
    /\ UNCHANGED <<storeVars, entry, failed, stats, envVars>>
    /\ UNCHANGED <<mode, start_block, end_block, max_concurrency, batch_start,
                   batch_end, block_number, permits, permit, tasks, spawned,
                   headers>>

\* a join that gives up at the first task that did not end well
JoinNextAbort(at) ==
    /\ pc = at
    /\ tasks # <<>>
    /\ Head(tasks).state # "running"
    /\ tasks' = Tail(tasks)
    /\ pc' = IF Head(tasks).state = "ok" THEN pc ELSE "done"
    /\ UNCHANGED <<storeVars, entry, failed, stats, envVars>>
    /\ UNCHANGED <<mode, start_block, end_block, max_concurrency,
                   batch_start, batch_end, block_number, permits, permit,
                   spawned, headers>>

\* `task.await` on the next handle returns once that task has ended; an Err
\* (a panic of the task) is logged
JoinNext(at) ==
    /\ pc = at
    /\ tasks # <<>>
    /\ Head(tasks).state # "running"
    /\ tasks' = Tail(tasks)
    /\ UNCHANGED <<storeVars, entry, failed, stats, envVars>>
    /\ UNCHANGED <<mode, start_block, end_block, max_concurrency, pc,
                   batch_start, batch_end, block_number, permits, permit,
                   spawned, headers>>

BatchJoin == JoinNext("batch_join")

\* a loop that moves on to the next batch without joining the tasks
BatchAdvanceEarly ==
    /\ pc = "batch_join"
    /\ batch_start' = batch_start + max_concurrency
    /\ batch_end' = batch_end + max_concurrency
    /\ \E report \in BOOLEAN : stats' = ProgressStats(stats, report)
    /\ pc' = "while"
    /\ UNCHANGED <<storeVars, entry, failed, envVars>>
    /\ UNCHANGED <<mode, start_block, end_block, max_concurrency,
                   block_number, permits, permit, tasks, spawned, headers>>

\* `batch_start += max_concurrency; batch_end += max_concurrency;` and the
\* statistics
BatchAdvance ==
    /\ pc = "batch_join"
    /\ tasks = <<>>
    /\ batch_start' = batch_start + max_concurrency
    /\ batch_end' = batch_end + max_concurrency
    /\ \E report \in BOOLEAN : stats' = ProgressStats(stats, report)
    /\ pc' = "while"
    /\ UNCHANGED <<storeVars, entry, failed, envVars>>
    /\ UNCHANGED <<mode, start_block, end_block, max_concurrency,
                   block_number, permits, permit, tasks, spawned, headers>>

\* the tail pass's loop body: no permit is acquired
TailSpawn ==
    /\ pc = "tail_for"
    /\ InRange(block_number, batch_end)
    /\ IF Skips(block_number)
          THEN UNCHANGED <<tasks, spawned>>
          ELSE /\ tasks' = Append(tasks, Task(block_number, FALSE))
               /\ spawned' = Append(spawned,
                     [block |-> block_number, phase |-> "tail",
                      ws_client |-> ws_client_index(block_number),
                      db_pool |-> db_pool_index(block_number)])
    /\ block_number' = block_number + 1
    /\ UNCHANGED <<storeVars, entry, failed, stats, envVars>>
    /\ UNCHANGED <<mode, start_block, end_block, max_concurrency, pc,
                   batch_start, batch_end, permits, permit, headers>>

TailForEnd ==
    /\ pc = "tail_for"
    /\ ~InRange(block_number, batch_end)
    /\ pc' = "tail_join"
    /\ UNCHANGED <<storeVars, entry, failed, stats, envVars>>
    /\ UNCHANGED <<mode, start_block, end_block, max_concurrency, batch_start,
                   batch_end, block_number, permits, permit, tasks, spawned,
                   headers>>

TailJoin == JoinNext("tail_join")

\* `Ok(())`
TailDone ==
    /\ pc = "tail_join"
    /\ tasks = <<>>
    /\ pc' = "done"
    /\ UNCHANGED <<storeVars, entry, failed, stats, envVars>>
    /\ UNCHANGED <<mode, start_block, end_block, max_concurrency, batch_start,
                   batch_end, block_number, permits, permit, tasks, spawned,
                   headers>>

\* a task whose permit is never given back to the semaphore
TaskCompleteKeepsPermit ==
    \E i \in InFlight, o \in Outcomes :
        /\ tasks' = [tasks EXCEPT ![i].state = o]
        /\ failed' = IF o = "ok" THEN failed
                                  ELSE failed \cup {[block |-> tasks[i].block,
                                                     state |-> o]}
        /\ UNCHANGED <<storeVars, entry, stats, envVars>>
        /\ UNCHANGED <<mode, start_block, end_block, max_concurrency, pc,
                       batch_start, batch_end, block_number, permits, permit,
                       spawned, headers>>

\* a spawned block task ends: index_block returned Ok or Err, or it panicked;
\* in each case the future is dropped and with it the permit it owns
TaskComplete ==
    \E i \in InFlight, o \in Outcomes :
        /\ tasks' = [tasks EXCEPT ![i].state = o, ![i].permit = FALSE]
        /\ permits' = IF tasks[i].permit THEN permits + 1 ELSE permits
        /\ failed' = IF o = "ok" THEN failed
                                  ELSE failed \cup {[block |-> tasks[i].block,
                                                     state |-> o]}
        /\ UNCHANGED <<storeVars, entry, stats, envVars>>
        /\ UNCHANGED <<mode, start_block, end_block, max_concurrency, pc,
                       batch_start, batch_end, block_number, permit, spawned,
                       headers>>

\* `while let Some(block) = subscription.next().await`: a header with a
\* number spawns a task at once, one without is logged
LiveHeader ==
    /\ pc = "live_next"
    /\ headers < MaxHeaders
    /\ headers' = headers + 1
    /\ \E numbered \in BOOLEAN :
          IF numbered
             THEN /\ tasks' = Append(tasks, Task(start_block + headers, FALSE))
                  /\ spawned' = Append(spawned,
                                       [block |-> start_block + headers,
                                        phase |-> "live",
                                        ws_client |-> 0, db_pool |-> 0])
             ELSE UNCHANGED <<tasks, spawned>>
    /\ UNCHANGED <<storeVars, entry, failed, stats, envVars>>
    /\ UNCHANGED <<mode, start_block, end_block, max_concurrency, pc,
                   batch_start, batch_end, block_number, permits, permit>>

\* the subscription ends: `for task in tasks`
LiveEnd ==
    /\ pc = "live_next"
    /\ pc' = "live_join"
    /\ UNCHANGED <<storeVars, entry, failed, stats, envVars>>
    /\ UNCHANGED <<mode, start_block, end_block, max_concurrency, batch_start,
                   batch_end, block_number, permits, permit, tasks, spawned,
                   headers>>

LiveJoin == JoinNext("live_join")

LiveDone ==
    /\ pc = "live_join"
    /\ tasks = <<>>
    /\ pc' = "done"
    /\ UNCHANGED <<storeVars, entry, failed, stats, envVars>>
    /\ UNCHANGED <<mode, start_block, end_block, max_concurrency, batch_start,
                   batch_end, block_number, permits, permit, tasks, spawned,
                   headers>>

\* main: `tokio::select!` between ctrl_c and run_live.  When SIGINT wins,
\* the run_live future is dropped with its join handles, main returns and
\* the runtime shuts down: the tasks still running are cancelled
LiveCtrlC ==
    /\ mode = "live"
    /\ pc \in {"live_next", "live_join"}
    /\ tasks' = [i \in DOMAIN tasks |->
                    IF tasks[i].state = "running"
                       THEN [tasks[i] EXCEPT !.state = "dropped",
                                             !.permit = FALSE]
                       ELSE tasks[i]]
    /\ pc' = "exited"
    /\ UNCHANGED <<storeVars, entry, failed, stats, envVars>>
    /\ UNCHANGED <<mode, start_block, end_block, max_concurrency, batch_start,
                   batch_end, block_number, permits, permit, spawned,
                   headers>>

SchedNext ==
    \/ LoopTest
    \/ BatchAcquire
    \/ BatchSpawn
    \/ BatchForEnd
    \/ BatchJoin
    \/ BatchAdvance
    \/ TailSpawn
    \/ TailForEnd
    \/ TailJoin
    \/ TailDone
    \/ TaskComplete
    \/ LiveHeader
    \/ LiveEnd
    \/ LiveJoin
    \/ LiveDone
    \/ LiveCtrlC

Init == SchedInit /\ DefaultPools

Next == SchedNext

Spec == Init /\ [][Next]_vars

\* the runtime polls the scheduler whenever it can take a step, and every
\* block task that was spawned ends
RangeStep ==
    \/ LoopTest
    \/ BatchAcquire
    \/ BatchSpawn
    \/ BatchForEnd
    \/ BatchJoin
    \/ BatchAdvance
    \/ TailSpawn
    \/ TailForEnd
    \/ TailJoin
    \/ TailDone

FairSpec == Spec /\ WF_vars(RangeStep) /\ WF_vars(TaskComplete)

\* Indexer::new: NB_OF_WS_CONNECTIONS sessions and NB_OF_DB_CONNECTIONS pools;
\* the runs with several of them are explored at MAX_CONCURRENCY = 2
PoolsInit ==
    /\ SchedInit
    /\ max_concurrency = 2
    /\ ws_client_count \in 1..MaxPools
    /\ db_pool_count \in 1..MaxPools

SpecPools == PoolsInit /\ [][Next]_vars

(***************************************************************************)
(* db::insert_smart_contract for an ERC-20 contract: the constructor logs  *)
(***************************************************************************)
\* the logs the node holds, in block order: a log of another address in
\* block 1, one in block 2, then a Transfer of the token "a1" in block 2
NodeLogs ==
    << [transaction_hash |-> "t1", block_hash |-> "h1", log_index |-> 0,
        address |-> "a2", log_type |-> None, block_number |-> 1,
        topics |-> <<ApprovalSig, AddressTopic(0, "a2")>>,
        data |-> U256(5, 0)],
       [transaction_hash |-> "t2", block_hash |-> "h2", log_index |-> 0,
        address |-> "a2", log_type |-> None, block_number |-> 2,
        topics |-> <<>>, data |-> U256(0, 0)],
       [transaction_hash |-> "t2", block_hash |-> "h2", log_index |-> 1,
        address |-> "a1", log_type |-> None, block_number |-> 2,
        topics |-> <<TransferSig, AddressTopic(0, "a1"),
                     AddressTopic(0, "a2")>>,
        data |-> U256(100, 0)] >>

\* `ws_client.get_logs(&Filter::new().from_block(b))`: no to_block and no
\* address, so the logs of every address from block b to the latest block
get_logs(from_block, latest) ==
    SelectSeq(NodeLogs, LAMBDA l : /\ l.block_number >= from_block
                                   /\ l.block_number <= latest)

\* the creation receipts of the token, in block 1 or in block 2
BackfillReceipts ==
    {[r EXCEPT !.block_number = b] : r \in CreationReceipts, b \in {1, 2}}

\* the ContractInfo values handed to insert_smart_contract: one of an ERC-20
\* contract whose abi_json is the array of its entries, the sentinel, and
\* one the explorer client builds from an ABI that is not ERC-20
BackfillInfos ==
    { [ContractInfoNew EXCEPT !.contractType = "ERC20",
                              !.abi = ToText(Erc20Abi),
                              !.abi_json = Erc20Abi],
      ContractInfoNew,
      ContractInfoOf(JObject([abi |-> JString(ToText(OtherAbi)),
                              name |-> JString(Raw("Other"))])) }

\* insert_smart_contract up to the loop over the constructor logs; latest is
\* the head of the chain when the logs are fetched,
\* token_ok = FALSE is an Err of insert_erc20_token (`?`), logs_ok = FALSE
\* an Err of get_logs, replaced by the empty list
InsertSmartContract ==
    /\ task.pc = "idle"
    /\ \E receipt \in BackfillReceipts, info \in BackfillInfos,
          code \in {ChainAccount.code, <<>>}, latest \in {1, 2},
          db_ok \in BOOLEAN, token_ok \in BOOLEAN, logs_ok \in BOOLEAN :
          LET out == insert_smart_contract(receipt, code, info, db_ok)
              erc20 == out.result = "constructor_logs"
          IN  /\ contracts' = out.contracts
              /\ tokens' = IF erc20 /\ ~token_ok THEN tokens ELSE out.tokens
              /\ task' =
                   [task EXCEPT
                      !.pc = IF erc20 /\ token_ok THEN "constructor_logs"
                                                  ELSE "done",
                      !.block_number = receipt.block_number,
                      !.receipt = Some(receipt),
                      !.logs = IF erc20 /\ token_ok /\ logs_ok
                                  THEN get_logs(receipt.block_number, latest)
                                  ELSE <<>>,
                      !.result = IF ~erc20 THEN out.result
                                 ELSE IF token_ok THEN "none" ELSE "Err"]
    /\ ncalls' = ncalls + 1
    /\ UNCHANGED <<schedVars, last, addr_max, applied, blocks, transactions,
                   transactions_receipts, addresses, logs, token_transfers>>

\* `for log in constructor_logs { logs::insert_log(..).await?; }`
ConstructorLog ==
    /\ task.pc = "constructor_logs"
    /\ task.logs # <<>>
    /\ \E db_ok \in BOOLEAN :
          LET log == Head(task.logs)
              rest == AfterLogRow(log)
              result == IF db_ok THEN rest.result ELSE "Err"
          IN  /\ logs' = IF db_ok THEN UpsertLog(LogRow(log, ncalls))
                                  ELSE logs
              /\ token_transfers' = IF db_ok THEN rest.token_transfers
                                             ELSE token_transfers
              /\ task' = IF result = "Ok"
                            THEN [task EXCEPT !.logs = Tail(task.logs)]
                            ELSE [task EXCEPT !.pc = "done",
                                              !.result = result]
    /\ ncalls' = ncalls + 1
    /\ UNCHANGED <<schedVars, last, addr_max, applied, blocks, transactions,
                   transactions_receipts, addresses, contracts, tokens>>

\* the loop is exhausted: `Ok(())`
ConstructorLogsDone ==
    /\ task.pc = "constructor_logs"
    /\ task.logs = <<>>
    /\ task' = [task EXCEPT !.pc = "done", !.result = "Ok"]
    /\ UNCHANGED <<schedVars, ncalls, last, addr_max, applied, taskTables>>

BackfillInit ==
    /\ StoreIdle
    /\ SchedIdle

BackfillNext ==
    \/ InsertSmartContract
    \/ ConstructorLog
    \/ ConstructorLogsDone

SpecBackfill == BackfillInit /\ [][BackfillNext]_vars

(***************************************************************************)
(* db::init_db, the schema bootstrap                                       *)
(***************************************************************************)
\* POSTGRES_CREATE_TABLE_ORDER: the scripts ./model/<name>.sql in order, each
\* named after the table it creates
Scripts == <<"configuration", "blocks", "transactions">>

AllTables == {Scripts[i] : i \in 1..Len(Scripts)}

\* the variables init_db leaves alone
bootFrame == <<mode, start_block, end_block, max_concurrency, pc, batch_start,
               batch_end, block_number, permits, permit, tasks, spawned,
               headers, entry, failed, stats, ws_client_count, db_pool_count,
               storeVars>>

\* init_db returns r
BootReturn(r) ==
    [boot EXCEPT !.pc = "idle", !.returned = @ + 1, !.result = r]

\* init_db up to the scripts: `db_pool.get().await?`, check_table_exists
\* (false when its query fails) and the version query; the scripts are
\* skipped when the configuration table exists, the query returns a row and
\* the stored version is the configured one
InitDbStart ==
    /\ boot.pc = "idle"
    /\ boot.returned < MaxRuns
    /\ \E version \in 1..MaxVersion, get_ok \in BOOLEAN, exists_ok \in BOOLEAN,
          query_ok \in BOOLEAN :
          LET table_exists == exists_ok /\ "configuration" \in boot.tables
              row == query_ok /\ boot.stored_version # 0
          IN  boot' =
                IF ~get_ok THEN [BootReturn("Err") EXCEPT !.VERSION = version]
                ELSE IF /\ table_exists
                        /\ row
                        /\ boot.stored_version = version
                   THEN [BootReturn("Ok") EXCEPT !.VERSION = version]
                ELSE [boot EXCEPT !.pc = "scripts", !.VERSION = version,
                                  !.next = 1, !.failures = {}]
    /\ UNCHANGED bootFrame

\* one iteration of `for sql_file_path in sql_file_paths`: a script that
\* cannot be read panics; one whose batch_execute fails is logged and the
\* loop goes on; one that executes creates its table
ExecuteScript ==
    /\ boot.pc = "scripts"
    /\ boot.next <= Len(Scripts)
    /\ \E outcome \in {"ok", "err", "unreadable"} :
          boot' =
            CASE outcome = "ok" ->
                   [boot EXCEPT !.tables = @ \cup {Scripts[boot.next]},
                                !.next = @ + 1]
              [] outcome = "err" ->
                   [boot EXCEPT !.failures = @ \cup {boot.next},
                                !.next = @ + 1]
              [] outcome = "unreadable" ->
                   [boot EXCEPT !.pc = "panicked"]
    /\ UNCHANGED bootFrame

\* the upsert of the version row, whose failure (no configuration table, or
\* a failure of the statement) is logged, and `Ok(())`
UpdateVersion ==
    /\ boot.pc = "scripts"
    /\ boot.next > Len(Scripts)
    /\ \E db_ok \in BOOLEAN :
          boot' =
            IF db_ok /\ "configuration" \in boot.tables
               THEN [BootReturn("Ok") EXCEPT !.stored_version = boot.VERSION]
               ELSE BootReturn("Ok")
    /\ UNCHANGED bootFrame

\* an empty database
InitDbInit ==
    /\ StoreIdle
    /\ SchedIdle

InitDbNext ==
    \/ InitDbStart
    \/ ExecuteScript
    \/ UpdateVersion

SpecInitDb == InitDbInit /\ [][InitDbNext]_vars

(***************************************************************************)
(* Properties.                                                             *)
(***************************************************************************)
Blocks(phase) ==
    {spawned[i].block : i \in {j \in 1..Len(spawned) :
                                  spawned[j].phase = phase}}

\* C1: in every scheduler mode, at no instant does the number of in-flight
\* block tasks exceed MAX_CONCURRENCY.
ConcurrencyCap == Cardinality(InFlight) <= max_concurrency

\* C2: when a range-mode run has returned, every block number of
\* [start_block, end_block], end_block included, had a block task.
EveryBlockOfRangeHasTask ==
    (mode = "range" /\ pc = "done") =>
        \A b \in start_block..end_block :
            \E i \in 1..Len(spawned) : spawned[i].block = b

\* C4: a range-mode run never spawns two block tasks for the same block
\* number and never spawns one for a block number outside
\* [start_block, end_block].
NoDuplicateNoOutsideTask ==
    mode = "range" =>
        /\ \A i, j \in 1..Len(spawned) :
              spawned[i].block = spawned[j].block => i = j
        /\ \A i \in 1..Len(spawned) :
              start_block <= spawned[i].block /\ spawned[i].block <= end_block

\* a run that has returned after a full batch and a tail pass whose range
\* reached beyond end_block
TailAfterBatchDone ==
    /\ mode = "range"
    /\ pc = "done"
    /\ Blocks("batch") # {}
    /\ Blocks("tail") # {}
    /\ batch_end - 1 > end_block

\* the blocks index_blocks spawns a task for, whatever the tasks return: the
\* full batches, then the rest up to end_block when the batches stop short
\* of it
ScheduledBlocks ==
    LET full == ((end_block - start_block) \div max_concurrency)
                    * max_concurrency
    IN  {b \in start_block..end_block :
            \/ b < start_block + full
            \/ start_block + full < end_block}

AllBlocks == {spawned[i].block : i \in 1..Len(spawned)}

\* C11: the range-mode scheduler never halts on task errors: a task that
\* returns an error or panics cancels no sibling, every later batch and the
\* tail pass are still scheduled, and index_blocks returns.
SchedulerSurvivesTaskErrors ==
    mode = "range" =>
        /\ \A i \in 1..Len(tasks) : tasks[i].state \in Outcomes \cup {"running"}
        /\ pc = "done" => AllBlocks = ScheduledBlocks
        /\ pc # "done" => AllBlocks \subseteq ScheduledBlocks

\* a run that returned although a task of the first batch ended with an
\* error and another with a panic, and that went on to spawn later blocks
FailuresThenLaterBatches ==
    /\ mode = "range"
    /\ pc = "done"
    /\ \E f, g \in failed :
          /\ f.state = "err"
          /\ g.state = "panic"
          /\ f.block < start_block + max_concurrency
          /\ g.block < start_block + max_concurrency
    /\ \E i \in 1..Len(spawned) :
          spawned[i].block >= start_block + max_concurrency

\* the hashes index_transaction was invoked for, in the order of invocation
IsInvocation(e) == e.op = "index_transaction" /\ e.result = "called"
Invoked == [i \in 1..Len(SelectSeq(task.trace, IsInvocation)) |->
               SelectSeq(task.trace, IsInvocation)[i].tx]

\* the steps of the task that ended as `result`
Steps(result) ==
    {i \in 1..Len(task.trace) : task.trace[i].result = result}

PassedLogs ==
    {task.trace[i].tx : i \in {j \in 1..Len(task.trace) :
                                  task.trace[j].op = "insert_log"}}

\* C13: a failure of the log sub-workflow for one receipt log does not abort
\* the transaction: when the transaction workflow returns after its receipt
\* was stored, every log of the receipt was passed to insert_log.
LaterLogsStillPassed ==
    (task.pc = "transaction_return" /\ task.receipt.some
       /\ Event("insert_transaction_receipt", task.transaction_hash, "Ok")
              \in {task.trace[i] : i \in 1..Len(task.trace)})
      => \A k \in 1..Len(task.receipt.value.logs) :
            LogKey(LogRow(task.receipt.value.logs[k], 0)) \in PassedLogs

\* the steps of the task so far
Events == {task.trace[i] : i \in 1..Len(task.trace)}

\* no row but block rows has been written
OnlyBlockRows ==
    /\ transactions = {}
    /\ transactions_receipts = {}
    /\ addresses = {}
    /\ contracts = {}
    /\ tokens = {}
    /\ logs = {}
    /\ token_transfers = {}

\* C25: within a block task the block row is inserted before any other row
\* of the block: at every instant, if the task has written a transaction,
\* address, receipt, contract or log row, the blocks table holds the row of
\* the task's block, and the block number of every such row is that of a
\* row of blocks.
BlockRowFirst ==
    LET present(n) == \E b \in blocks : b.number = n
    IN  /\ ~OnlyBlockRows => present(task.block_number)
        /\ \A r \in transactions : present(r.blockNumber)
        /\ \A r \in transactions_receipts : present(r.blockNumber)
        /\ \A r \in addresses : present(r.blockNumber)
        /\ \A r \in contracts : present(r.blockNumber)
        /\ \A r \in logs : present(r.blockNumber)

\* a task that has written rows of all five kinds
AllKindsOfRowsWritten ==
    /\ transactions # {}
    /\ transactions_receipts # {}
    /\ addresses # {}
    /\ contracts # {}
    /\ logs # {}

\* the place of a step in the transaction workflow
Rank(e) ==
    CASE e.op = "index_transaction" /\ e.result = "called" -> 0
      [] e.op = "get_transaction" -> 1
      [] e.op = "insert_transaction" -> 2
      [] e.op = "index_address(from)" -> 3
      [] e.op = "index_address(to)" -> 4
      [] e.op = "get_transaction_receipt" -> 5
      [] e.op = "insert_transaction_receipt" -> 6
      [] e.op = "index_address(contract)" -> 7
      [] e.op = "index_smart_contract" -> 8
      [] e.op = "insert_log" -> 9
      [] e.op = "index_transaction" /\ e.result # "called" -> 10
      [] OTHER -> -1

\* the transaction a step belongs to (insert_log records the key of the log)
TxOf(e) == IF e.op = "insert_log" THEN e.tx[1][2] ELSE e.tx

\* C26: within one transaction workflow the steps occur in the order
\* transaction insert, from address, to address, receipt fetch and insert,
\* contract address and contract sub-workflow (creation only), then the
\* receipt logs in receipt order; the transaction insert precedes any
\* address indexing and the receipt insert precedes the contract and log
\* sub-workflows.
StepOrder ==
    \A j \in 1..Len(task.trace) :
       LET e == task.trace[j]
           before(op) == \E i \in 1..(j - 1) :
                            task.trace[i] = Event(op, TxOf(e), "Ok")
       IN  Rank(e) >= 0 =>
             /\ \A i \in 1..(j - 1) :
                   TxOf(task.trace[i]) = TxOf(e) =>
                      \/ Rank(task.trace[i]) < Rank(e)
                      \/ /\ e.op = "insert_log"
                         /\ task.trace[i].op = "insert_log"
                         /\ task.trace[i].tx[3] < e.tx[3]
             /\ Rank(e) \in 3..9 => before("insert_transaction")
             /\ Rank(e) \in 7..9 => before("insert_transaction_receipt")
             /\ Rank(e) \in 7..8 => ChainReceipt(TxOf(e)).contract_address.some

\* a task that went through the contract sub-workflow of one transaction and
\* through the second log of another
ContractAndSecondLog ==
    /\ \E e \in Events : e.op = "index_smart_contract" /\ e.result = "Ok"
    /\ \E e \in Events : e.op = "insert_log" /\ e.tx[3] = 1
    /\ \E e \in Events : e.op = "index_address(to)"

\* C27: if insert_block fails, index_block returns an error, the
\* transaction workflow is invoked for no transaction of the block and the
\* task writes no row.
InsertBlockFailureIsFatal ==
    Event("insert_block", <<>>, "Err") \in Events
      => /\ task.pc = "done"
         /\ task.result = "Err"
         /\ Invoked = <<>>
         /\ blocks = {}
         /\ OnlyBlockRows

\* insert_block failed for a block that lists two transactions
InsertBlockFailedWithTransactions ==
    /\ Event("insert_block", <<>>, "Err") \in Events
    /\ Len(task.block.value.transactions) = 2

\* C28: if the node returns no block for the number, index_block writes
\* nothing to the store and returns success.
NoBlockWritesNothing ==
    Event("get_block", <<>>, "Err") \in Events
      => /\ task.pc = "done"
         /\ task.result = "Ok"
         /\ ncalls = 0
         /\ blocks = {}
         /\ OnlyBlockRows

\* the node returned no block for block 2
NoBlockReturned ==
    /\ Event("get_block", <<>>, "Err") \in Events
    /\ task.block_number = 2
    /\ ~task.block.some

\* C29: if indexing the from address fails, by a failure of get_balance, of
\* get_transaction_count or of insert_address, index_transaction stops with
\* an error and neither fetches nor inserts the receipt.
FromAddressFailurePropagates ==
    \A i \in 1..Len(task.trace) :
       task.trace[i].op = "index_address(from)" /\ task.trace[i].result = "Err"
         => /\ \A j \in (i + 1)..Len(task.trace) :
                  TxOf(task.trace[j]) = task.trace[i].tx
                    => task.trace[j] =
                           Event("index_transaction", task.trace[i].tx, "Err")
            /\ i = Len(task.trace) => task.tx_result = "Err"

\* C30: in index_address a failure of get_code or of get_storage_at is
\* replaced by empty bytes or the zero hash and the address is still
\* upserted, a new row holding the row insert_address builds from the
\* fetched balance and transaction count; a failure of get_balance or of
\* get_transaction_count returns an error and upserts no address.
AddressFetchFailures ==
    [][(/\ task.pc \in {"from_address", "to_address", "contract_address"}
        /\ task'.trace # task.trace)
        => LET e == task'.trace[Len(task'.trace)]
               address == CASE task.pc = "from_address" ->
                                  task.transaction.value.from
                            [] task.pc = "to_address" ->
                                  task.transaction.value.to.value
                            [] OTHER ->
                                  task.receipt.value.contract_address.value
               rows == {r \in addresses' : r.address = Hex0x(address)}
               fresh == \A r \in addresses : r.address # Hex0x(address)
           IN  /\ task'.failing \in {"get_balance", "get_transaction_count"}
                    => /\ addresses' = addresses
                       /\ task'.pc = "transaction_return"
                       /\ task'.tx_result = "Err"
               /\ task'.failing \in {"get_code", "get_storage_at"}
                    => /\ Cardinality(rows) = 1
                       /\ task'.pc # "transaction_return"
                       /\ fresh =>
                            \A r \in rows :
                               /\ r = AddressRow(
                                        address, ChainAccount.balance,
                                        ChainAccount.count, ChainAccount.count,
                                        IF task'.failing = "get_storage_at"
                                           THEN 0 ELSE ChainAccount.storage,
                                        IF task'.failing = "get_code"
                                           THEN <<>> ELSE ChainAccount.code,
                                        task.transaction.value.block_number)
                               /\ task'.failing = "get_code"
                                     => r.contractCode = <<>>
                               /\ task'.failing = "get_storage_at"
                                     => r.storage = Hex0x(0)]_vars

\* an address indexed for the first time although get_code failed
AddressUpsertedWithoutCode ==
    /\ task.failing = "get_code"
    /\ task.pc = "to_address"
    /\ \E r \in addresses : r.contractCode = <<>>

FunctionNames(items) ==
    {items[i].name : i \in {j \in 1..Len(items) : items[j].type = "function"}}

Erc20Rule(items) ==
    {"totalSupply", "balanceOf", "transfer"} \subseteq FunctionNames(items)

Erc721Rule(items) ==
    {"ownerOf", "safeTransferFrom", "transferFrom"}
        \subseteq FunctionNames(items)

\* a value that is a list of ABI entries
IsAbiArray(v) == v.kind = "array"

\* a value that is a string holding the JSON text of a list of ABI entries
IsAbiString(v) ==
    /\ v.kind = "string"
    /\ from_str(v.text).ok
    /\ from_str(v.text).value.kind = "array"

\* C14: for every ABI, a list of entries, that contains function entries
\* totalSupply, balanceOf and transfer, detect_contract_type returns ERC-20,
\* whatever the order and whatever else the list holds.
Erc20Classification ==
    last.op = "detect_contract_type" =>
        /\ ( /\ IsAbiArray(last.call)
             /\ Erc20Rule(last.call.items) ) => last.result = "ERC20"
        /\ ( /\ IsAbiString(last.call)
             /\ Erc20Rule(from_str(last.call.text).value.items) )
           => last.result = "ERC20"

\* C15: the rules are tried in order and the first match wins: an ABI that
\* fails the ERC-20 rule is ERC-721 exactly when it contains function
\* entries ownerOf, safeTransferFrom and transferFrom, and an ABI that
\* matches no rule is Unknown (checked on the string form of the ABI).
RulesInOrder ==
    (last.op = "detect_contract_type" /\ IsAbiString(last.call)) =>
        LET items == from_str(last.call.text).value.items
        IN  /\ Erc20Rule(items) => last.result = "ERC20"
            /\ ~Erc20Rule(items) =>
                   (last.result = "ERC721" <=> Erc721Rule(items))
            /\ (~Erc20Rule(items) /\ ~Erc721Rule(items)) =>
                   last.result = "Unknown"

\* C16: an ABI that is null, unparseable or an empty array classifies as
\* Unknown, returned as a value.
DegenerateAbiIsUnknown ==
    ( /\ last.op = "detect_contract_type"
      /\ \/ is_null_value(last.call)
         \/ last.call = JString(Garbage)
         \/ last.call = JArray(<<>>)
         \/ last.call = JString(ToText(JArray(<<>>))) )
    => last.result = "Unknown"

\* C19: run_last_blocks(N) with 1 <= N <= latest block runs block tasks for
\* exactly the last N blocks: N distinct numbers, the highest the latest.
LastBlocksExactlyN ==
    (entry = "run_last_blocks" /\ pc = "done") =>
        LET number_of_blocks == end_block - start_block
        IN  /\ AllBlocks = (end_block - number_of_blocks + 1)..end_block
            /\ Len(spawned) = number_of_blocks

\* C20: in live mode every task launched is awaited on shutdown: when the
\* process exits, by the end of the subscription or by SIGINT, no launched
\* task is still running or was dropped in flight.
LiveTasksAwaited ==
    (mode = "live" /\ pc \in {"done", "exited"}) =>
        \A i \in 1..Len(tasks) : tasks[i].state \in Outcomes

\* C5: every block task the range-mode scheduler spawned holds a semaphore
\* permit for as long as it runs, and holds none once it has completed.
EveryTaskHoldsPermit ==
    mode = "range" =>
        \A i \in 1..Len(tasks) :
            tasks[i].permit <=> (tasks[i].state = "running")

\* the value a Decimal column holds when it equals the U256 supplied
DecimalOfU256(u) == DecimalFromParts(u.lo, u.hi, 0)

\* the Decimal d is the integer the U256 u holds
DecimalIsU256(d, u) ==
    d = DecimalOfU256(u) /\ ~u.bit63 /\ u.x64 = 0 /\ u.x128 = 0

\* the value an INT column holds when it equals the U256 supplied
IsIntOfU256(n, u) == u.hi = 0 /\ n = u.lo

\* the rows of token_transfers that stand for the log
TransfersOf(log) ==
    {r \in token_transfers :
        TransferKey(r) = <<Hex0x(log.transaction_hash),
                           Hex0x(log.block_hash), log.log_index>>}

\* C21: for every Transfer log of an ERC-20 contract handed to
\* insert_erc20_transfer, the persisted token_transfers row has fromAddress
\* the low 20 bytes of topics[1], toAddress the low 20 bytes of topics[2]
\* and amount the U256 value of data, whatever that value is.
TransferRowMatchesLog ==
    (last.op = "insert_erc20_transfer" /\ last.db_ok)
      => /\ TransfersOf(last.call) # {}
         /\ \A r \in TransfersOf(last.call) :
               /\ r.fromAddress = Hex0x(last.call.topics[2].low20)
               /\ r.toAddress = Hex0x(last.call.topics[3].low20)
               /\ DecimalIsU256(r.amount, last.call.data)

\* C22: in the token sub-workflow each failing on-chain call degrades to its
\* default: whichever of the calls fail, the token row is still upserted,
\* with zero for a failed totalSupply or decimals and the empty string for a
\* failed name or symbol, and insert_erc20_token returns Ok.
TokenCallFailuresDegrade ==
    (last.op = "insert_erc20_token" /\ last.db_ok)
      => /\ last.result = "Ok"
         /\ \E r \in tokens :
               /\ r.address = Hex0x(last.call.address)
               /\ "totalSupply" \in last.call.failing
                     => r.totalSupply = DecimalFromParts(0, 0, 0)
               /\ "symbol" \in last.call.failing => r.symbol = EmptyText

\* C23: in range mode the batches are separated by a barrier: every task
\* still running belongs to the batch (or the tail pass) being scheduled,
\* and whenever the scheduler is between batches, before the tail pass or
\* done, no task is running.
BatchBarrier ==
    mode = "range" =>
        /\ \A i \in InFlight :
              /\ tasks[i].block >= batch_start
              /\ tasks[i].block < batch_end
        /\ pc \in {"while", "done"} => InFlight = {}
        /\ pc = "tail_for" =>
              \A i \in InFlight :
                 \E j \in 1..Len(spawned) :
                    /\ spawned[j].block = tasks[i].block
                    /\ spawned[j].phase = "tail"

\* a tail pass with a task running, after a batch of two or more tasks
TailRunsAfterBatch ==
    /\ mode = "range"
    /\ max_concurrency >= 2
    /\ InFlight # {}
    /\ \E i, j \in 1..Len(spawned) :
          /\ spawned[i].phase = "batch"
          /\ spawned[j].phase = "tail"

\* C24: under FairSpec, where every spawned block task ends, every range run
\* returns: batch_start grows at every iteration of the batch loop and no
\* acquisition of a permit waits for ever.
RangeRunReturns ==
    /\ [][(pc = "batch_join" /\ pc' = "while")
             => batch_start' > batch_start]_vars
    /\ (mode = "range") ~> (pc = "done")

\* a range run that has returned after more than one batch
ReturnedAfterBatches ==
    /\ mode = "range"
    /\ pc = "done"
    /\ batch_start >= start_block + 2 * max_concurrency
    /\ max_concurrency >= 2
    /\ Len(spawned) >= 4

\* C3: after any interleaving of insert_address calls for an address, the
\* stored block_number is the maximum supplied and balance, nonce,
\* transaction_count, contract_code and storage are the values supplied by
\* a call that carried that maximum.
AddressMonotonicity ==
    \A a \in Addresses :
        LET carriers == {c \in addr_max : c.address = a}
        IN  carriers # {} =>
              /\ Cardinality(AddressRows(Hex0x(a))) = 1
              /\ \A r \in AddressRows(Hex0x(a)) :
                    \E c \in carriers :
                       /\ r.blockNumber = c.block_number
                       /\ r.balance = DecimalOfU256(c.balance)
                       /\ IsIntOfU256(r.nonce, c.nonce)
                       /\ IsIntOfU256(r.transactionCount, c.transaction_count)
                       /\ r.contractCode = HexBytes(c.code)
                       /\ r.storage = Hex0x(c.storage)

\* C7: an insert_address call whose block_number is less than or equal to
\* the stored block_number leaves every column of the stored row unchanged.
StaleAddressSampleIgnored ==
    ( /\ last.op = "insert_address"
      /\ last.db_ok
      /\ last.before # {}
      /\ \A o \in last.before : last.call.block_number <= o.blockNumber )
    => AddressRows(Hex0x(last.call.address)) = last.before

\* the scenario S2: a sample of a lower block with another balance arrived
\* after the stored one, and the stored balance and block number stand
StaleAddressSampleSeen ==
    /\ last.op = "insert_address"
    /\ last.db_ok
    /\ \E o \in last.before :
          /\ last.call.block_number < o.blockNumber
          /\ low_u32(last.call.balance) # o.balance.lo
          /\ o \in addresses

\* the applied calls of an operation whose argument satisfies Test
AppliedCalls(op, Test(_)) ==
    SelectSeq(applied, LAMBDA c : c.op = op /\ Test(c.arg))

\* C6: however often insert_block is called for a block number, and with
\* whatever contents, the blocks table holds exactly one row for that
\* number, with the values of the first call.
BlockIdempotence ==
    \A n \in 1..MaxBn :
        LET calls == AppliedCalls("insert_block", LAMBDA b : b.number = n)
        IN  calls # <<>> =>
              {r \in blocks : r.number = n}
                  = {BlockRow(calls[1].arg, calls[1].at)}

\* a block number inserted twice with differing contents
BlockInsertedTwice ==
    \E n \in 1..MaxBn :
        LET calls == AppliedCalls("insert_block", LAMBDA b : b.number = n)
        IN  /\ Len(calls) >= 2
            /\ calls[1].arg # calls[2].arg
            /\ last.op = "insert_block"
            /\ last.db_ok
            /\ last.before # {}

\* the mutable columns of a logs row
LogMutable(r) ==
    <<r.data, r.type, r.firstTopic, r.secondTopic, r.thirdTopic,
      r.fourthTopic, r.address, r.blockNumber>>

\* C8: re-inserting a log with an existing key keeps exactly one row for the
\* key, leaves the key and every other undeclared column unchanged, sets
\* the declared mutable columns to the new values, and inserting the same
\* log once more changes nothing.
LogIdempotence ==
    ( /\ last.op = "insert_log"
      /\ last.db_ok
      /\ last.before # {} )
    => LET new == LogRow(last.call, ncalls)
           rows == {r \in logs : LogKey(r) = LogKey(new)}
       IN  /\ Cardinality(rows) = 1
           /\ \A r \in rows :
                 /\ LogMutable(r) = LogMutable(new)
                 /\ \E o \in last.before :
                       /\ LogKey(r) = LogKey(o)
                       /\ r.insertedAt = o.insertedAt
           /\ ( /\ Len(applied) >= 2
                /\ applied[Len(applied) - 1].arg = last.call )
              => rows = last.before

\* a log re-inserted with other values, and the same log inserted again
LogReinserted ==
    /\ last.op = "insert_log"
    /\ last.db_ok
    /\ Len(applied) = 3
    /\ applied[2].arg = last.call
    /\ applied[1].arg # last.call
    /\ LogKey(LogRow(applied[1].arg, 0)) = LogKey(LogRow(last.call, 0))
    /\ LogMutable(LogRow(applied[1].arg, 0)) # LogMutable(LogRow(last.call, 0))

\* C9: insert_transaction and insert_transaction_receipt on an existing
\* hash are no-ops: the row keeps every value of the first insertion and
\* the call reports success.
TransactionReinsertNoOp ==
    /\ ( /\ last.op = "insert_transaction"
         /\ last.db_ok
         /\ last.before # {} )
       => LET first == AppliedCalls("insert_transaction",
                                    LAMBDA t : t.hash = last.call.hash)[1]
          IN  /\ last.result = "Ok"
              /\ {r \in transactions : r.hash = Hex0x(last.call.hash)}
                    = {TransactionRow(first.arg)}
    /\ ( /\ last.op = "insert_transaction_receipt"
         /\ last.db_ok
         /\ last.before # {} )
       => LET first == AppliedCalls(
                           "insert_transaction_receipt",
                           LAMBDA t : t.transaction_hash
                                         = last.call.transaction_hash)[1]
          IN  /\ last.result = "Ok"
              /\ {r \in transactions_receipts :
                     r.transactionHash = Hex0x(last.call.transaction_hash)}
                    = {ReceiptRow(first.arg)}

\* a transaction and its receipt each inserted again with other values
TransactionReinserted ==
    /\ Len(applied) >= 2
    /\ last.db_ok
    /\ last.before # {}
    /\ last.op \in {"insert_transaction", "insert_transaction_receipt"}
    /\ \E i \in 1..(Len(applied) - 1) :
          /\ applied[i].op = last.op
          /\ applied[i].arg # last.call
          /\ IF last.op = "insert_transaction"
                THEN applied[i].arg.hash = last.call.hash
                ELSE applied[i].arg.transaction_hash
                        = last.call.transaction_hash

\* C10: index_smart_contract on a creation receipt whose address gets a 404
\* from the explorer still writes one contracts row, with empty abi, empty
\* source_code and contract_type "", and the enclosing task continues.
NotFoundStillInsertsContract ==
    ( /\ last.op = "index_smart_contract"
      /\ last.db_ok
      /\ last.call.response.transport = "ok"
      /\ last.call.response.status = 404 )
    => /\ last.result = "Ok"
       /\ LET rows == {r \in contracts :
                          r.address
                            = Hex0x(last.call.receipt.contract_address.value)}
          IN  /\ Cardinality(rows) = 1
              /\ \A r \in rows :
                    /\ r.abi = JArray(<<>>)
                    /\ r.sourceCode = EmptyText
                    /\ r.contractType = ""

\* an explorer outcome that is an error: no answer (transport error or
\* timeout), a 4xx, a 5xx, or a body that is no JSON
ExplorerFailed(response) ==
    \/ response.transport = "error"
    \/ /\ response.transport = "ok"
       /\ \/ is_client_error(response.status)
          \/ is_server_error(response.status)
          \/ ~from_str(response.body).ok

\* C17: no explorer outcome is fatal to the enclosing workflow: on 404,
\* another 4xx, a 5xx, a JSON parse error, a transport error or a timeout,
\* get_verified_sc_data returns a ContractInfo and the contract sub-workflow
\* goes on to upsert the contract.
ExplorerErrorsNotFatal ==
    ( /\ last.op = "index_smart_contract"
      /\ ExplorerFailed(last.call.response) )
    => /\ ~get_verified_sc_data(last.call.response).panic
       /\ last.result = "Ok"
       /\ last.db_ok =>
             \E r \in contracts :
                r.address = Hex0x(last.call.receipt.contract_address.value)

(***************************************************************************)
(* The sessions, the permits and the progress counters of the scheduler.   *)
(***************************************************************************)
\* C36: every range-mode block task for block b is given RPC session
\* b mod N and DB pool b mod M, valid indices whenever N >= 1 and M >= 1;
\* every live-mode block task is given session 0 and pool 0.
PoolIndices ==
    \A i \in 1..Len(spawned) :
       LET e == spawned[i]
       IN  IF e.phase = "live"
              THEN e.ws_client = 0 /\ e.db_pool = 0
              ELSE /\ e.ws_client = e.block % ws_client_count
                   /\ e.db_pool = e.block % db_pool_count
                   /\ e.ws_client \in 0..(ws_client_count - 1)
                   /\ e.db_pool \in 0..(db_pool_count - 1)

\* a tail task whose block number is beyond both counts and falls on
\* different indices of the sessions and of the pools
WrappedPoolIndices ==
    \E i \in 1..Len(spawned) :
       /\ spawned[i].phase = "tail"
       /\ spawned[i].block >= ws_client_count
       /\ spawned[i].block >= db_pool_count
       /\ ws_client_count > 1
       /\ db_pool_count > 1
       /\ spawned[i].ws_client # spawned[i].db_pool

RowsAfterReceipt(h) ==
    {r \in transactions_receipts : r.transactionHash = Hex0x(h)}
       \cup {r \in contracts : r.transactionHash = Hex0x(h)}
       \cup {r \in logs : r.transactionHash = Hex0x(h)}
       \cup {r \in token_transfers : r.transactionHash = Hex0x(h)}

LastLogRows ==
    {r \in logs : LogKey(r) = LogKey(LogRow(last.call, 0))}

LastLogTransfers ==
    {r \in token_transfers : TransferKey(r) = LogKey(LogRow(last.call, 0))}

\* C32: when get_abi_by_address signals NoABI for the log's address (no
\* contract row, or a null ABI), the log sub-workflow returns success with
\* the log row persisted and no token_transfer row written; NoABI is never
\* reported as an error to the transaction workflow.
NoAbiIsSuccess ==
    ( /\ last.op = "insert_log"
      /\ last.db_ok
      /\ ~get_abi_by_address(Hex0x(last.call.address)).found )
    => /\ last.result = "Ok"
       /\ Cardinality(LastLogRows) = 1
       /\ last.before = {} => LastLogRows = {LogRow(last.call, ncalls - 1)}
       /\ LastLogTransfers = {}

\* a Transfer log of an address whose contract row has a null ABI, inserted
\* after a log of an address without a contract row
NullAbiAfterNoContract ==
    /\ last.op = "insert_log"
    /\ last.db_ok
    /\ last.result = "Ok"
    /\ \E c \in contracts : /\ c.address = Hex0x(last.call.address)
                            /\ is_null_value(c.abi)
    /\ last.call.topics # <<>>
    /\ last.call.topics[1] = TransferSig
    /\ \E r \in logs : \A c \in contracts : c.address # r.address
    /\ LastLogRows # {}

\* C33: an ABI parse failure or a Transfer decode failure in the log
\* sub-workflow is returned as an error value for that log only: the log row
\* inserted before the failure stays stored, no token_transfer row is
\* written for it, and the task is not otherwise aborted.
AbiFailureIsErrValue ==
    ( /\ last.op = "insert_log"
      /\ last.db_ok
      /\ get_abi_by_address(Hex0x(last.call.address)).found
      /\ last.result # "Ok" )
    => /\ last.result = "Err"
       /\ LastLogRows # {}
       /\ LastLogTransfers = {}

(***************************************************************************)
(* The sentinel of the explorer client and the balance of an address.      *)
(***************************************************************************)
\* C34: the empty ContractInfo sentinel that the explorer client returns on
\* a 404 (ContractInfo::new()) satisfies is_null() == true, so
\* insert_smart_contract takes its minimum-information branch for it.
NotFoundSentinelIsNull ==
    ( /\ last.op = "index_smart_contract"
      /\ last.call.response.transport = "ok"
      /\ last.call.response.status = 404 )
    => /\ get_verified_sc_data(last.call.response) = Returned(ContractInfoNew)
       /\ ContractInfoIsNull(get_verified_sc_data(last.call.response).info)

\* C40: the balance stored by insert_address equals the balance supplied to
\* it for every U256 balance, including values of 2^32 and above (no
\* truncation or wrap-around in the conversion to the stored numeric).
BalanceStoredInFull ==
    ( /\ last.op = "insert_address"
      /\ last.db_ok
      /\ last.before = {} )
    => \A r \in AddressRows(Hex0x(last.call.address)) :
          DecimalIsU256(r.balance, last.call.balance)

(***************************************************************************)
(* The schema after bootstrap.                                             *)
(***************************************************************************)
\* C35: whenever schema bootstrap (init_db) returns, whether it executed the
\* ordered SQL scripts or skipped them because the stored version equals the
\* configured version, all tables exist; this holds after any sequence of
\* bootstrap runs, including runs in which a script failed to execute.
AllTablesAfterBootstrap ==
    (boot.pc = "idle" /\ boot.returned > 0 /\ boot.result = "Ok")
       => boot.tables = AllTables

TaskRowsCarryBlockOfTask ==
    /\ \A r \in blocks : r.number = task.block_number
    /\ \A r \in transactions \cup transactions_receipts \cup addresses
                \cup contracts \cup logs \cup token_transfers :
          r.blockNumber = task.block_number

=============================================================================
